---- MODULE Spec2Model ----
(***************************************************************************)
(* Locale synchronisation hooks of neogo (src/hooks.go).                   *)
(*                                                                         *)
(* A record with one locale pair is modelled: a base field `Name` and its  *)
(* companion `NameLocale`, a struct with the string fields EnUS and EnAU   *)
(* (hookLocales).  The base is either a string or a *string, the companion *)
(* either a hookLocales or a *hookLocales, which covers                    *)
(* hookLocalizedPerson, hookNilableLocalePerson and                        *)
(* hookPtrBaseLocalePerson.  The record is addressable (the hooks are      *)
(* handed reflect.ValueOf(&record)), so every field can be set.            *)
(*                                                                         *)
(* Identifiers that the code takes apart or puts together (field names,    *)
(* locale keys, keys of the raw property map) are sequences of one-letter  *)
(* strings, so that lcFirst, the suffix test of localeBaseName and the     *)
(* flat key prefix + "_" + lcFirst(key) are computed as the code does.     *)
(*                                                                         *)
(* Three more components follow the hooks, each with its own state and its *)
(* own specification: the label and relationship-type extractor            *)
(* (src/internal/tags.go, SpecTags), the property tag parser (the same     *)
(* file, SpecPropTag) and the property serializer (src/props.go,           *)
(* SpecProps) together with the Scope Binder and the reconstruction of a   *)
(* record from its property map, which the design document describes.      *)
(***************************************************************************)
EXTENDS Integers, Sequences, FiniteSets, TLC

\* ------------------------------------------------------------------------
\* Bounds of the model.

\* Longest preference sequence a selector returns.
MaxKeys == 2

\* Largest number of flat locale keys in a raw property map.
MaxFlatKeys == 2

\* ------------------------------------------------------------------------
\* Identifiers.

EnUS == <<"E", "n", "U", "S">>
EnAU == <<"E", "n", "A", "U">>
\* A locale key a selector may name although hookLocales has no such field.
EnGB == <<"E", "n", "G", "B">>

\* The fields of hookLocales, in declaration order.
LocaleFields == <<EnUS, EnAU>>

LocaleFieldSet == {LocaleFields[i] : i \in 1..Len(LocaleFields)}

\* The locale keys selectors are drawn from.
KeyUniverse == {EnUS, EnAU, EnGB}

NameField == <<"N", "a", "m", "e">>
NameLocaleField == <<"N", "a", "m", "e", "L", "o", "c", "a", "l", "e">>

\* The fields of the record, in declaration order.
StructFields == <<NameField, NameLocaleField>>

StructFieldSet == {StructFields[i] : i \in 1..Len(StructFields)}

UpperLetters == <<"A", "B", "C", "D", "E", "F", "G", "H", "I", "J", "K", "L", "M",
                  "N", "O", "P", "Q", "R", "S", "T", "U", "V", "W", "X", "Y", "Z">>

LowerLetters == <<"a", "b", "c", "d", "e", "f", "g", "h", "i", "j", "k", "l", "m",
                  "n", "o", "p", "q", "r", "s", "t", "u", "v", "w", "x", "y", "z">>

\* unicode.ToLower on one letter.
ToLower(c) ==
    IF \E i \in 1..Len(UpperLetters) : UpperLetters[i] = c
    THEN LowerLetters[CHOOSE i \in 1..Len(UpperLetters) : UpperLetters[i] = c]
    ELSE c

lcFirst_Identity(s) == s

lcFirst(s) ==
    IF s = <<>> THEN s ELSE <<ToLower(Head(s))>> \o Tail(s)

HasSuffix(s, suffix) ==
    /\ Len(s) >= Len(suffix)
    /\ SubSeq(s, Len(s) - Len(suffix) + 1, Len(s)) = suffix

TrimSuffix(s, suffix) ==
    IF HasSuffix(s, suffix) THEN SubSeq(s, 1, Len(s) - Len(suffix)) ELSE s

SuffixLocales == <<"L", "o", "c", "a", "l", "e", "s">>
SuffixLocale == <<"L", "o", "c", "a", "l", "e">>

localeBaseName(fieldName) ==
    IF HasSuffix(fieldName, SuffixLocales)
    THEN [name |-> TrimSuffix(fieldName, SuffixLocales), ok |-> TRUE]
    ELSE IF HasSuffix(fieldName, SuffixLocale)
         THEN [name |-> TrimSuffix(fieldName, SuffixLocale), ok |-> TRUE]
         ELSE [name |-> <<>>, ok |-> FALSE]

\* ------------------------------------------------------------------------
\* Values.

\* The strings a field is given at the start; "" is the zero value.
Strings == {"", "a", "b"}

\* Values of the raw property map (any): nil, strings, an integer, a boolean.
NilV == [t |-> "nil", s |-> "", n |-> 0]
StrV(x) == [t |-> "string", s |-> x, n |-> 0]
IntV(k) == [t |-> "int", s |-> "", n |-> k]
BoolV == [t |-> "bool", s |-> "", n |-> 1]

RawValues == {NilV, BoolV, IntV(65)} \cup {StrV(x) : x \in Strings}

\* string(rune(n)) for the integers of RawValues.
RuneString(n) == IF n = 65 THEN "A" ELSE "?"

\* reflect: a value of this type can be assigned to a string.
AssignableToString(v) == v.t = "string"

\* reflect: a value of this type can be converted to a string.
ConvertibleToString(v) == v.t \in {"string", "int"}

ConvertToString(v) == IF v.t = "int" THEN RuneString(v.n) ELSE v.s

\* The zero hookLocales.
ZeroLocales == [f \in LocaleFieldSet |-> ""]

\* hookLocales.IsZero()
StructIsZero(fs) == \A f \in LocaleFieldSet : fs[f] = ""

\* The base field: ptr tells its type (*string or string), nil whether the
\* pointer is nil, val the string it resolves to ("" under a nil pointer).
BaseValues ==
    {[ptr |-> p, nil |-> FALSE, val |-> s] : p \in BOOLEAN, s \in Strings}
        \cup {[ptr |-> TRUE, nil |-> TRUE, val |-> ""]}

\* The companion field: ptr tells its type (*hookLocales or hookLocales).
LocaleValues ==
    {[ptr |-> p, nil |-> FALSE, f |-> fs] : p \in BOOLEAN, fs \in [LocaleFieldSet -> Strings]}
        \cup {[ptr |-> TRUE, nil |-> TRUE, f |-> ZeroLocales]}

\* reflect.Value.IsZero() of the companion field itself: a pointer is zero
\* exactly when it is nil, a struct when all its fields are.
LocaleValueIsZero(l) == IF l.ptr THEN l.nil ELSE StructIsZero(l.f)

\* reflect.New(...) stored in a nil pointer field.
AllocBase(b) == [b EXCEPT !.nil = FALSE, !.val = ""]
AllocLocale(l) == [l EXCEPT !.nil = FALSE, !.f = ZeroLocales]

\* ------------------------------------------------------------------------
\* Selectors.

RECURSIVE SeqsUpTo(_, _)
SeqsUpTo(S, n) ==
    IF n = 0 THEN {<<>>}
    ELSE LET shorter == SeqsUpTo(S, n - 1)
         IN shorter \cup {Append(q, x) : q \in shorter, x \in S}

IsInjective(q) == \A i, j \in 1..Len(q) : q[i] = q[j] => i = j

\* What selector.PreferredKeys() may return: no key twice, possibly none.
Selectors == {q \in SeqsUpTo(KeyUniverse, MaxKeys) : IsInjective(q)}

DefaultKeys == <<EnUS, EnAU>>

resolveKeys(sel) == IF Len(sel) > 0 THEN sel ELSE DefaultKeys

\* ------------------------------------------------------------------------
\* Helpers of the hooks.

Min(S) == CHOOSE x \in S : \A y \in S : x <= y

\* assignValue for a string destination that can be set: the outcome and the
\* string stored.
assignValue(dst, src) ==
    IF AssignableToString(src) THEN [ok |-> TRUE, val |-> src.s]
    ELSE IF ConvertibleToString(src) THEN [ok |-> TRUE, val |-> ConvertToString(src)]
    ELSE [ok |-> FALSE, val |-> dst]

RECURSIVE firstPreferredFrom(_, _, _)
firstPreferredFrom(fs, keys, i) ==
    IF i > Len(keys) THEN [ok |-> FALSE, val |-> ""]
    ELSE IF keys[i] \notin LocaleFieldSet \/ fs[keys[i]] = ""
         THEN firstPreferredFrom(fs, keys, i + 1)
         ELSE [ok |-> TRUE, val |-> fs[keys[i]]]

\* The last non-zero field in declaration order instead of the first.
FirstNonZeroField_LastDeclared(fs) ==
    LET nz == {i \in 1..Len(LocaleFields) : fs[LocaleFields[i]] # ""}
    IN IF nz = {} THEN [ok |-> FALSE, val |-> ""]
       ELSE [ok |-> TRUE, val |-> fs[LocaleFields[CHOOSE i \in nz : \A j \in nz : j <= i]]]

\* The first non-zero field in declaration order; no result if there is none.
FirstNonZeroField(fs) ==
    LET nz == {i \in 1..Len(LocaleFields) : fs[LocaleFields[i]] # ""}
    IN IF nz = {} THEN [ok |-> FALSE, val |-> ""]
       ELSE [ok |-> TRUE, val |-> fs[LocaleFields[Min(nz)]]]

firstPreferredLocaleValue_DeclarationOrder(fs, keys) == FirstNonZeroField(fs)

firstPreferredLocaleValue(fs, keys) == firstPreferredFrom(fs, keys, 1)

\* The base after setBaseFromLocale(base, companion struct, keys).
setBaseFromLocale(b, fs, keys) ==
    LET p == firstPreferredLocaleValue(fs, keys)
        a == assignValue(b.val, StrV(p.val))
        d == FirstNonZeroField(fs)
        e == assignValue(b.val, StrV(d.val))
    IN IF p.ok /\ a.ok THEN [b EXCEPT !.val = a.val]
       ELSE IF d.ok /\ e.ok THEN [b EXCEPT !.val = e.val]
       ELSE b

RECURSIVE setLocaleFromKeys(_, _, _, _)
setLocaleFromKeys(v, fs, keys, i) ==
    IF i > Len(keys) THEN [ok |-> FALSE, f |-> fs]
    ELSE IF keys[i] \notin LocaleFieldSet \/ fs[keys[i]] # ""
         THEN setLocaleFromKeys(v, fs, keys, i + 1)
         ELSE LET a == assignValue(fs[keys[i]], StrV(v))
              IN IF a.ok THEN [ok |-> TRUE, f |-> [fs EXCEPT ![keys[i]] = a.val]]
                 ELSE setLocaleFromKeys(v, fs, keys, i + 1)

\* The first zero field in declaration order takes the value.
SetFirstZeroField(v, fs) ==
    LET z == {i \in 1..Len(LocaleFields) : fs[LocaleFields[i]] = ""}
    IN IF z = {} THEN fs ELSE [fs EXCEPT ![LocaleFields[Min(z)]] = v]

setLocaleFromBase_DeclarationOrder(v, fs, keys) == SetFirstZeroField(v, fs)

\* The companion struct after setLocaleFromBase(base value, companion, keys).
setLocaleFromBase(v, fs, keys) ==
    LET r == setLocaleFromKeys(v, fs, keys, 1)
    IN IF r.ok THEN r.f ELSE SetFirstZeroField(v, fs)

\* ------------------------------------------------------------------------
\* Marshal direction.

marshalSync_ClearLocale(b, l, keys) ==
    IF b.val = ""
    THEN [base |-> b, locale |-> [l EXCEPT !.f = ZeroLocales]]
    ELSE IF StructIsZero(l.f)
         THEN [base |-> b, locale |-> [l EXCEPT !.f = setLocaleFromBase(b.val, l.f, keys)]]
         ELSE [base |-> b, locale |-> l]

\* The end of the loop body of localesMarshalHook: base and companion are
\* both resolved (no nil pointer is left).
marshalSync(b, l, keys) ==
    IF b.val = ""
    THEN IF StructIsZero(l.f)
         THEN [base |-> b, locale |-> l]
         ELSE [base |-> setBaseFromLocale(b, l.f, keys), locale |-> l]
    ELSE IF StructIsZero(l.f)
         THEN [base |-> b, locale |-> [l EXCEPT !.f = setLocaleFromBase(b.val, l.f, keys)]]
         ELSE [base |-> b, locale |-> l]

\* The loop body of localesMarshalHook for the pair (b, l).
marshalPair(b, l, keys) ==
    IF b.ptr /\ b.nil /\ LocaleValueIsZero(l)
    THEN [base |-> b, locale |-> l]
    ELSE LET b1 == IF b.ptr /\ b.nil THEN AllocBase(b) ELSE b
         IN IF l.ptr /\ l.nil /\ b1.val = ""
            THEN [base |-> b1, locale |-> l]
            ELSE marshalSync(b1, IF l.ptr /\ l.nil THEN AllocLocale(l) ELSE l, keys)

RECURSIVE marshalFields(_, _, _)
marshalFields(rec, keys, i) ==
    IF i > Len(StructFields) THEN rec
    ELSE LET bn == localeBaseName(StructFields[i])
         IN IF ~bn.ok \/ bn.name \notin StructFieldSet
            THEN marshalFields(rec, keys, i + 1)
            ELSE marshalFields(marshalPair(rec.base, rec.locale, keys), keys, i + 1)

\* localesMarshalHook on the record [base, locale].
localesMarshalHook(rec, keys) == marshalFields(rec, keys, 1)

\* ------------------------------------------------------------------------
\* Unmarshal direction.

\* The keys a raw property map may carry for the locales of Name.
NameEnUSKey == <<"n", "a", "m", "e", "_", "e", "n", "U", "S">>
NameEnAUKey == <<"n", "a", "m", "e", "_", "e", "n", "A", "U">>
NameEnGBKey == <<"n", "a", "m", "e", "_", "e", "n", "G", "B">>

FlatKeyUniverse == {NameEnUSKey, NameEnAUKey, NameEnGBKey}

\* The raw value handed to the unmarshal hook: a map[string]any with at most
\* MaxFlatKeys flat locale keys, or something that is no map (nil).
PropsMaps ==
    UNION {[D -> RawValues] : D \in {E \in SUBSET FlatKeyUniverse : Cardinality(E) <= MaxFlatKeys}}

NoMap == [isMap |-> FALSE, m |-> <<>>]

FromValues == {NoMap} \cup {[isMap |-> TRUE, m |-> m] : m \in PropsMaps}

hasAnyFlatKey_Always(props, prefix, keys) == TRUE

hasAnyFlatKey(props, prefix, keys) ==
    \E i \in 1..Len(keys) : (prefix \o <<"_">> \o lcFirst(keys[i])) \in DOMAIN props

\* extractFlatLocaleKeys: the companion after the extraction and the result.
extractFlatLocaleKeys(props, baseName, l, keys) ==
    LET prefix == lcFirst(baseName)
    IN IF l.ptr /\ l.nil /\ ~hasAnyFlatKey(props, prefix, keys)
       THEN [locale |-> l, found |-> FALSE]
       ELSE LET l1 == IF l.ptr /\ l.nil THEN AllocLocale(l) ELSE l
                flatKey(f) == prefix \o <<"_">> \o lcFirst(f)
                isSet(f) ==
                    /\ flatKey(f) \in DOMAIN props
                    /\ props[flatKey(f)] # NilV
                    /\ assignValue(l1.f[f], props[flatKey(f)]).ok
            IN [locale |-> [l1 EXCEPT !.f = [f \in LocaleFieldSet |->
                                IF isSet(f) THEN assignValue(l1.f[f], props[flatKey(f)]).val
                                ELSE l1.f[f]]],
                found |-> \E f \in LocaleFieldSet : isSet(f)]

unmarshalSync_NeverAllocate(b, l, found, keys) ==
    IF b.ptr /\ b.nil
    THEN [base |-> b, locale |-> l, found |-> found]
    ELSE IF l.ptr /\ l.nil
         THEN [base |-> b, locale |-> l, found |-> found]
         ELSE IF found \/ (b.val = "" /\ ~StructIsZero(l.f))
              THEN [base |-> setBaseFromLocale(b, l.f, keys), locale |-> l, found |-> found]
              ELSE [base |-> b, locale |-> l, found |-> found]

\* Phase 2 of the loop body of localesUnmarshalHook: locale -> base.
unmarshalSync(b, l, found, keys) ==
    IF b.ptr /\ b.nil /\ ((l.ptr /\ l.nil) \/ StructIsZero(l.f))
    THEN [base |-> b, locale |-> l, found |-> found]
    ELSE LET b1 == IF b.ptr /\ b.nil THEN AllocBase(b) ELSE b
         IN IF l.ptr /\ l.nil
            THEN [base |-> b1, locale |-> l, found |-> found]
            ELSE IF found
                 THEN [base |-> setBaseFromLocale(b1, l.f, keys), locale |-> l, found |-> found]
                 ELSE IF b1.val = "" /\ ~StructIsZero(l.f)
                      THEN [base |-> setBaseFromLocale(b1, l.f, keys), locale |-> l, found |-> found]
                      ELSE [base |-> b1, locale |-> l, found |-> found]

\* The loop body of localesUnmarshalHook for the pair (b, l).
unmarshalPair(from, baseName, b, l, keys) ==
    LET ex == IF from.isMap
              THEN extractFlatLocaleKeys(from.m, baseName, l, keys)
              ELSE [locale |-> l, found |-> FALSE]
    IN unmarshalSync(b, ex.locale, ex.found, keys)

RECURSIVE unmarshalFields(_, _, _, _)
unmarshalFields(from, rec, keys, i) ==
    IF i > Len(StructFields) THEN rec
    ELSE LET bn == localeBaseName(StructFields[i])
         IN IF ~bn.ok \/ bn.name \notin StructFieldSet
            THEN unmarshalFields(from, rec, keys, i + 1)
            ELSE unmarshalFields(from,
                     unmarshalPair(from, bn.name, rec.base, rec.locale, keys), keys, i + 1)

\* localesUnmarshalHook on the record [base, locale]; found reports the
\* flatKeysFound of the pair.
localesUnmarshalHook(from, rec, keys) ==
    unmarshalFields(from, [base |-> rec.base, locale |-> rec.locale, found |-> FALSE], keys, 1)

\* ------------------------------------------------------------------------
\* The state machine: a record, the selector the hooks were built with and
\* the raw value the record is bound from; each step runs one hook on it.

VARIABLES
    base,       \* the base field Name
    locale,     \* the companion field NameLocale
    selector,   \* what selector.PreferredKeys() returns
    from,       \* the raw value handed to the unmarshal hook
    op,         \* the hook that ran last: "none", "marshal" or "unmarshal"
    base0,      \* the base before that hook ran
    locale0,    \* the companion before that hook ran
    found       \* flatKeysFound of that hook run

\* The label and relationship-type extractor and the property serializer are
\* separate components with their own state; `component` names the one a
\* behaviour exercises, and the variables of the others stay Idle.
VARIABLES
    component,  \* "hooks", "tags", "proptag" or "props"
    tagArg,     \* the value handed to the label / relationship-type extractor
    tagLabels,  \* outcome of ExtractNodeLabels(tagArg)
    tagRel,     \* outcome of ExtractRelationshipType(tagArg)
    fieldTag,   \* the db and json tags of a struct field
    propTag,    \* outcome of PropTagForField on that field
    propsArg,   \* the value handed to PropsFromStruct and to the Scope Binder
    propsOut,   \* outcome of PropsFromStruct(propsArg)
    propsOut0,  \* the outcome the argument was reconstructed from, if it was
    bound       \* the qualified names the Scope Binder registered

\* The configuration with its hook chains, the parameter canonicalizer and
\* the hooks on a record with several locale pairs are three more
\* components; the canonicalizer and the record with several pairs use the
\* selector of the hooks, the canonicalizer also their record.
VARIABLES
    config,     \* Config: MarshalHooks, UnmarshalHooks, LocalePreferredKeys
    registered, \* the hooks in the order they were registered, per direction
    hookPerson, \* the hookPerson the chain ran on last
    hookRun,    \* the last run of a chain: hooks registered and invoked, error
    canonArg,   \* how the record is handed to canonicalizeParams
    canonOut,   \* outcome of canonicalizeParams({"props": argument})
    flatOut,    \* the map after flattenLocaleFields(argument, map)
    direct,     \* outcome of PropsFromStruct(argument)
    question,   \* a record with two locale pairs and other fields
    question0   \* that record before the last hook ran

hookVars == <<base, locale, selector, from, op, base0, locale0, found>>

tagVars == <<tagArg, tagLabels, tagRel>>

propTagVars == <<fieldTag, propTag>>

propsVars == <<propsArg, propsOut, propsOut0, bound>>

configVars == <<config, registered, hookPerson, hookRun>>

canonVars == <<canonArg, canonOut, flatOut, direct>>

multiVars == <<question, question0>>

laterVars == <<configVars, canonVars, multiVars>>

vars == <<component, hookVars, tagVars, propTagVars, propsVars, laterVars>>

\* The value of a variable whose component is not exercised.
Idle == [idle |-> TRUE]

TagsIdle == tagArg = Idle /\ tagLabels = Idle /\ tagRel = Idle

PropTagIdle == fieldTag = Idle /\ propTag = Idle

PropsIdle == propsArg = Idle /\ propsOut = Idle /\ propsOut0 = Idle /\ bound = Idle

ConfigIdle == config = Idle /\ registered = Idle /\ hookPerson = Idle /\ hookRun = Idle

CanonIdle == canonArg = Idle /\ canonOut = Idle /\ flatOut = Idle /\ direct = Idle

MultiIdle == question = Idle /\ question0 = Idle

LaterIdle == ConfigIdle /\ CanonIdle /\ MultiIdle

\* The preference order of the hooks (LocalesHookWithSelector,
\* LocalesUnmarshalHookWithSelector).
keys == resolveKeys(selector)

InitRecord ==
    /\ component = "hooks"
    /\ TagsIdle
    /\ PropTagIdle
    /\ PropsIdle
    /\ LaterIdle
    /\ base \in BaseValues
    /\ locale \in LocaleValues
    /\ selector \in Selectors
    /\ op = "none"
    /\ base0 = base
    /\ locale0 = locale
    /\ found = FALSE

Init ==
    /\ InitRecord
    /\ from \in FromValues

\* Records that are only marshalled: no raw value is involved.
InitMarshal ==
    /\ InitRecord
    /\ from = NoMap

\* LocalesHookWithSelector(selector)(record)
Marshal ==
    LET r == localesMarshalHook([base |-> base, locale |-> locale], keys)
    IN /\ component = "hooks"
       /\ base' = r.base
       /\ locale' = r.locale
       /\ base0' = base
       /\ locale0' = locale
       /\ found' = FALSE
       /\ op' = "marshal"
       /\ UNCHANGED <<selector, from, component, tagVars, propTagVars, propsVars, laterVars>>

\* LocalesUnmarshalHookWithSelector(selector)(from, record)
Unmarshal ==
    LET r == localesUnmarshalHook(from, [base |-> base, locale |-> locale], keys)
    IN /\ component = "hooks"
       /\ base' = r.base
       /\ locale' = r.locale
       /\ base0' = base
       /\ locale0' = locale
       /\ found' = r.found
       /\ op' = "unmarshal"
       /\ UNCHANGED <<selector, from, component, tagVars, propTagVars, propsVars, laterVars>>

NextHooks == Marshal \/ Unmarshal

SpecMarshal == InitMarshal /\ [][Marshal]_vars

SpecUnmarshal == Init /\ [][Unmarshal]_vars

TypeOK ==
    /\ base.ptr \in BOOLEAN /\ base.nil \in BOOLEAN
    /\ (base.nil => base.ptr /\ base.val = "")
    /\ locale.ptr \in BOOLEAN /\ locale.nil \in BOOLEAN
    /\ (locale.nil => locale.ptr /\ locale.f = ZeroLocales)
    /\ base.ptr = base0.ptr
    /\ locale.ptr = locale0.ptr
    /\ op \in {"none", "marshal", "unmarshal"}

\* ------------------------------------------------------------------------
\* Vocabulary of the properties.

\* The flat key of each locale key, written out.
NameFlatKey == (EnUS :> NameEnUSKey) @@ (EnAU :> NameEnAUKey) @@ (EnGB :> NameEnGBKey)

\* The raw value carries no flat locale key of the pair.
NoFlatKeyInRaw ==
    from.isMap => \A k \in KeyUniverse : NameFlatKey[k] \notin DOMAIN from.m

BaseNonZero(b) == ~b.nil /\ b.val # ""

\* The positions of the preference order that name a non-zero field of fs.
PreferredNonZero(fs) ==
    {i \in 1..Len(keys) : keys[i] \in LocaleFieldSet /\ fs[keys[i]] # ""}

\* The companion value the preference order selects from a non-zero fs: the
\* first preferred non-zero field, else the first non-zero field declared.
SelectedValue(fs) ==
    IF PreferredNonZero(fs) # {}
    THEN fs[keys[Min(PreferredNonZero(fs))]]
    ELSE fs[LocaleFields[Min({i \in 1..Len(LocaleFields) : fs[LocaleFields[i]] # ""})]]

\* The string a field holds after it was given the raw value v.
StoredString(v) == IF v.t = "int" THEN RuneString(v.n) ELSE v.s

\* ------------------------------------------------------------------------
\* Properties.

\* C1: unmarshal without flat locale keys in the raw input: a base that is a
\* non-nil pointer to the zero value still points to the zero value after
\* the hook.
C1_ExplicitZeroBaseKept ==
    (op = "unmarshal" /\ NoFlatKeyInRaw /\ base0.ptr /\ ~base0.nil /\ base0.val = "")
        => (~base.nil /\ base.val = "")

\* C2: marshal with a base that resolves to its zero value and is no nil
\* pointer, companion present: afterwards every field of the companion is
\* zero.
C2_ZeroBaseClearsLocale ==
    (op = "marshal" /\ ~base0.nil /\ base0.val = "" /\ ~locale0.nil)
        => (~locale.nil /\ \A f \in LocaleFieldSet : locale.f[f] = "")

\* C3: marshal with a nil pointer base: the companion is the same before and
\* after the hook (nil stays nil, every field keeps its value).
C3_NilBaseLeavesLocale ==
    (op = "marshal" /\ base0.nil) => locale = locale0

C3_Witness ==
    /\ op = "marshal" /\ base0.nil
    /\ ~locale0.nil /\ locale0.f[EnUS] = "a" /\ locale0.f[EnAU] = "b"
    /\ locale = locale0

\* C4: marshal with a non-zero base: afterwards the companion field named by
\* the first preference key equals the base and every other field is zero,
\* whatever the companion held before.
C4_BaseOverwritesLocale ==
    (op = "marshal" /\ BaseNonZero(base0) /\ Head(keys) \in LocaleFieldSet)
        => /\ ~locale.nil
           /\ locale.f[Head(keys)] = base0.val
           /\ \A f \in LocaleFieldSet \ {Head(keys)} : locale.f[f] = ""

\* C5: the marshal hook never changes the base: it is the same before and
\* after, and a nil pointer base is still nil.
C5_MarshalKeepsBase ==
    op = "marshal" => base = base0

\* C6: marshal with a non-zero base and a nil pointer companion: the
\* companion is allocated, the field named by the first preference key holds
\* the base value and every other field is zero.
C6_NilLocaleFilled ==
    (op = "marshal" /\ BaseNonZero(base0) /\ locale0.nil /\ Head(keys) \in LocaleFieldSet)
        => /\ ~locale.nil
           /\ locale.f[Head(keys)] = base0.val
           /\ \A f \in LocaleFieldSet \ {Head(keys)} : locale.f[f] = ""

C6_Witness ==
    /\ op = "marshal" /\ locale0.nil /\ base0.val = "a"
    /\ keys = <<EnAU, EnUS>>
    /\ ~locale.nil /\ locale.f[EnAU] = "a" /\ locale.f[EnUS] = ""

\* C7 as stated: for every locale key of the preference order whose flat key
\* is in the raw map with a non-nil value, the companion is non-nil after the
\* unmarshal hook and its field for that key holds that value.
C7_AnyNonNilValueExtracted ==
    op = "unmarshal" =>
        \A i \in 1..Len(keys) :
            (/\ keys[i] \in LocaleFieldSet
             /\ from.isMap
             /\ NameFlatKey[keys[i]] \in DOMAIN from.m
             /\ from.m[NameFlatKey[keys[i]]] # NilV)
                => (~locale.nil /\ from.m[NameFlatKey[keys[i]]] = StrV(locale.f[keys[i]]))

\* C7 amended: for every locale key of the preference order whose flat key is
\* in the raw map with a non-nil value that can be assigned or converted to
\* the field's type, the companion is non-nil after the unmarshal hook and
\* its field for that key holds that value, converted to the field's type.
C7_FlatKeyExtraction ==
    op = "unmarshal" =>
        \A i \in 1..Len(keys) :
            (/\ keys[i] \in LocaleFieldSet
             /\ from.isMap
             /\ NameFlatKey[keys[i]] \in DOMAIN from.m
             /\ from.m[NameFlatKey[keys[i]]].t \in {"string", "int"})
                => (~locale.nil /\ locale.f[keys[i]] = StoredString(from.m[NameFlatKey[keys[i]]]))

C7_Witness ==
    /\ op = "unmarshal" /\ locale0.nil
    /\ from.isMap /\ NameEnUSKey \in DOMAIN from.m /\ from.m[NameEnUSKey] = StrV("a")
    /\ keys = <<EnUS, EnAU>>
    /\ ~locale.nil /\ locale.f[EnUS] = "a"

\* C8: when a flat locale key was extracted, the base after the unmarshal
\* hook equals the value of the first key of the preference order whose
\* companion field is non-zero, also when the base held another non-zero
\* value before.
C8_FlatKeysOverrideBase ==
    (op = "unmarshal" /\ found /\ PreferredNonZero(locale.f) # {})
        => (~base.nil /\ base.val = locale.f[keys[Min(PreferredNonZero(locale.f))]])

C8_Witness ==
    /\ op = "unmarshal" /\ found
    /\ keys = <<EnAU, EnUS>>
    /\ base0.val = "b"
    /\ NameEnUSKey \in DOMAIN from.m /\ from.m[NameEnUSKey] = StrV("b")
    /\ NameEnAUKey \in DOMAIN from.m /\ from.m[NameEnAUKey] = StrV("a")
    /\ locale.f[EnUS] = "b" /\ locale.f[EnAU] = "a"
    /\ base.val = "a"

\* C9: unmarshal without extracted flat keys and a nil pointer base: if the
\* companion holds a non-zero field the base is allocated and set to the
\* companion value the preference order selects; if the companion is nil or
\* all-zero the base stays nil.
C9_NilBaseFilled ==
    (op = "unmarshal" /\ ~found /\ base0.nil)
        => IF ~locale0.nil /\ ~StructIsZero(locale0.f)
           THEN ~base.nil /\ base.val = SelectedValue(locale0.f)
           ELSE base.nil

C9_Witness ==
    /\ op = "unmarshal" /\ ~found /\ base0.nil
    /\ ~locale0.nil /\ locale0.f[EnUS] = "b" /\ locale0.f[EnAU] = "a"
    /\ keys = <<EnAU, EnUS>>
    /\ ~base.nil /\ base.val = "a"

\* C10: unmarshal with no flat locale key of the pair in the raw map and a
\* non-zero base: the hook changes nothing, the base keeps its value and a
\* nil pointer companion stays nil.
C10_NoFlatKeysNoOp ==
    (op = "unmarshal" /\ NoFlatKeyInRaw /\ BaseNonZero(base0))
        => (base = base0 /\ locale = locale0)

C10_Witness ==
    /\ op = "unmarshal" /\ from.isMap /\ NoFlatKeyInRaw
    /\ base0.val = "a" /\ locale0.nil
    /\ base.val = "a" /\ locale.nil

\* The companion is authoritative for the base: a flat key was extracted, or
\* the base was a nil pointer or a zero value that is no pointer.
Authoritative ==
    /\ op = "unmarshal"
    /\ ~locale.nil
    /\ (found \/ base0.nil \/ (~base0.ptr /\ base0.val = ""))

\* ------------------------------------------------------------------------
\* C26: when the companion is authoritative and no key of the preference
\* order names a companion field that holds a non-zero value, the base
\* after the unmarshal hook is the first non-zero field of the companion in
\* declaration order; when every field of the companion is zero the base
\* is what it was.
C26_DeclarationOrderFallback ==
    Authoritative =>
        /\ (PreferredNonZero(locale.f) = {} /\ ~StructIsZero(locale.f)) =>
               /\ ~base.nil
               /\ \E i \in 1..Len(LocaleFields) :
                      /\ locale.f[LocaleFields[i]] # ""
                      /\ \A j \in 1..(i - 1) : locale.f[LocaleFields[j]] = ""
                      /\ base.val = locale.f[LocaleFields[i]]
        /\ (StructIsZero(locale.f) => base = base0)

\* The selector names no field of the companion: EnUS is declared first.
C26_Witness ==
    /\ Authoritative
    /\ found
    /\ keys = <<EnGB>>
    /\ base0.val = ""
    /\ locale.f[EnUS] = "a" /\ locale.f[EnAU] = "b"
    /\ base.val = "a"

\* ========================================================================
\* Label and relationship-type extraction (src/internal/tags.go).
\*
\* A struct type is its name and its declared fields in order; a field is
\* whether it is anonymous, the kind of its type, its `neo4j` tag and, for a
\* struct or pointer-to-struct field, the struct type.  A value handed to
\* the extractor is the chain of pointer / slice / array wrappers around a
\* base type, with the position of the first nil pointer of the leading
\* pointer run (0 when none is nil).

\* Deepest chain of wrappers around the base type of an extractor argument.
MaxWrap == 2

\* Largest number of fields of a composed struct type.
MaxEmbed == 2

\* strings.Split(s, sep): the segments of s between the separators.
RECURSIVE Split(_, _)
Split(s, sep) ==
    LET at == {i \in 1..Len(s) : s[i] = sep}
    IN IF at = {} THEN <<s>>
       ELSE <<SubSeq(s, 1, Min(at) - 1)>> \o Split(SubSeq(s, Min(at) + 1, Len(s)), sep)

Reverse(s) == [i \in 1..Len(s) |-> s[Len(s) + 1 - i]]

\* f.Tag.Lookup("neo4j"): absent, or the raw tag text.
NoTag == [has |-> FALSE, raw |-> <<>>]
Neo4j(raw) == [has |-> TRUE, raw |-> raw]

Field(anon, kind, tag, typ) == [anon |-> anon, kind |-> kind, tag |-> tag, typ |-> typ]

\* Base types that are not structs: a string, and the interface type `any`.
StringT == [name |-> "string", fields |-> <<>>]
AnyT == [name |-> "interface", fields |-> <<>>]

\* The marker types of the package: embedding Node makes a type an INode,
\* embedding Relationship makes it an IRelationship.
Node == [name |-> "Node", fields |-> <<Field(FALSE, "string", NoTag, StringT)>>]
Relationship == [name |-> "Relationship", fields |-> <<Field(FALSE, "string", NoTag, StringT)>>]
Label == [name |-> "Label", fields |-> <<>>]

\* The label texts of the test types.
PersonL == <<"P", "e", "r", "s", "o", "n">>
SwedishL == <<"S", "w", "e", "d", "i", "s", "h">>
ForeignL == <<"F", "o", "r", "e", "i", "g", "n">>
RobotL == <<"R", "o", "b", "o", "t">>
FriendshipL == <<"F", "r", "i", "e", "n", "d", "s", "h", "i", "p">>
FamilyL == <<"F", "a", "m", "i", "l", "y">>
NameL == <<"N", "a", "m", "e">>
ConcreteL == <<"C", "o", "n", "c", "r", "e", "t", "e">>

\* The test types.
person == [name |-> "person", fields |-> <<Field(TRUE, "struct", Neo4j(PersonL), Node)>>]
swedishPerson == [name |-> "swedishPerson", fields |-> <<Field(TRUE, "struct", Neo4j(SwedishL), person)>>]
foreignPerson == [name |-> "foreignPerson", fields |-> <<Field(TRUE, "struct", Neo4j(ForeignL), swedishPerson)>>]
personWithNonStructLabels ==
    [name |-> "personWithNonStructLabels",
     fields |-> <<Field(TRUE, "struct", NoTag, swedishPerson),
                  Field(FALSE, "string", Neo4j(NameL), StringT)>>]
personWithAnonymousStructLabels ==
    [name |-> "personWithAnonymousStructLabels",
     fields |-> <<Field(TRUE, "struct", NoTag, swedishPerson),
                  Field(FALSE, "struct", Neo4j(ConcreteL), swedishPerson)>>]
robot == [name |-> "robot", fields |-> <<Field(TRUE, "struct", Neo4j(RobotL), Label)>>]
friendship == [name |-> "friendship", fields |-> <<Field(TRUE, "struct", Neo4j(FriendshipL), Relationship)>>]
family == [name |-> "family", fields |-> <<Field(TRUE, "struct", Neo4j(FamilyL), Relationship)>>]

TestTypes ==
    {person, swedishPerson, foreignPerson, personWithNonStructLabels,
     personWithAnonymousStructLabels, robot, friendship, family}

\* Types composed of the test types: each field embeds or names one of them.
\* The tag of the field at position i is its own text; the first carries an
\* option after a comma.
EmbedTargets == {person, swedishPerson, robot, friendship}

SiteLetters == <<"X", "Y", "Z", "W">>

SiteTag(i) == IF i = 1 THEN <<SiteLetters[i], ",", "o">> ELSE <<SiteLetters[i]>>

FieldShapes(i) ==
    {Field(TRUE, "struct", Neo4j(SiteTag(i)), t) : t \in EmbedTargets}
    \cup {Field(TRUE, "struct", NoTag, t) : t \in EmbedTargets}
    \cup {Field(FALSE, "struct", Neo4j(SiteTag(i)), t) : t \in EmbedTargets}
    \cup {Field(TRUE, "ptr", Neo4j(SiteTag(i)), t) : t \in EmbedTargets}
    \cup {Field(FALSE, "string", Neo4j(SiteTag(i)), StringT)}

RECURSIVE ComposedFields(_)
ComposedFields(n) ==
    IF n = 0 THEN {<<>>}
    ELSE {Append(fs, f) : fs \in ComposedFields(n - 1), f \in FieldShapes(n)}

ComposedTypes ==
    {[name |-> "composed", fields |-> fs] : fs \in UNION {ComposedFields(n) : n \in 0..MaxEmbed}}

\* Types that embed a marker type without a tag.
UntaggedTypes ==
    {[name |-> "composed", fields |-> <<Field(TRUE, "struct", NoTag, t)>>] :
        t \in {Node, Relationship}}

StructTypes == TestTypes \cup ComposedTypes \cup UntaggedTypes

\* The argument `i any` of the extractors.
UntypedNil == [untyped |-> TRUE, wrap |-> <<>>, nilAt |-> 0, base |-> AnyT]

Wrappers == {"ptr", "slice", "array"}

Wraps == UNION {[1..n -> Wrappers] : n \in 0..MaxWrap}

\* Number of pointers before the first wrapper that is not a pointer.
LeadingPtrs(w) == Min({i \in 1..Len(w) : w[i] # "ptr"} \cup {Len(w) + 1}) - 1

\* Base types under a chain of wrappers: a struct type, a string, or (as the
\* element type of a slice or array) the interface type `any`.
BasesUnder(w) ==
    StructTypes \cup {StringT}
    \cup (IF w # <<>> /\ w[Len(w)] # "ptr" THEN {AnyT} ELSE {})

\* A typed argument: wrappers w around the base type b, the k-th pointer of
\* the leading run being the first nil one (none when k = 0).
TypedArg(w, k, b) == [untyped |-> FALSE, wrap |-> w, nilAt |-> k, base |-> b]

\* v.Kind()
Kind(i) ==
    IF i.wrap # <<>> THEN i.wrap[1]
    ELSE IF i.base = StringT THEN "string"
    ELSE IF i.base = AnyT THEN "interface"
    ELSE "struct"

\* v.Elem() of a non-nil pointer.
Elem(i) ==
    [i EXCEPT !.wrap = Tail(i.wrap),
              !.nilAt = IF i.nilAt = 0 THEN 0 ELSE i.nilAt - 1]

\* reflect.Zero(v.Type().Elem()).Interface() of a slice or array: the zero
\* value of the element type; of an interface type that is the untyped nil.
ZeroElem(i) ==
    LET w == Tail(i.wrap)
    IN IF w = <<>> /\ i.base = AnyT THEN UntypedNil
       ELSE [untyped |-> FALSE, wrap |-> w,
             nilAt |-> IF w # <<>> /\ w[1] = "ptr" THEN 1 ELSE 0,
             base |-> i.base]

RECURSIVE Concat(_)
Concat(ss) == IF ss = <<>> THEN <<>> ELSE Head(ss) \o Concat(Tail(ss))

\* The types a struct type embeds: its anonymous fields of struct or
\* pointer-to-struct type, whose methods it promotes.
Embedded(t) ==
    LET emb == SelectSeq(t.fields, LAMBDA f : f.anon /\ f.kind \in {"struct", "ptr"})
    IN [k \in 1..Len(emb) |-> emb[k].typ]

\* Method promotion: the methods of the marker type are in the method set of
\* a struct type when, at the shallowest embedding depth where the marker
\* occurs, it occurs once.
RECURSIVE Promotes(_, _)
Promotes(level, marker) ==
    LET hits == {k \in 1..Len(level) : level[k].name = marker}
    IN IF level = <<>> THEN FALSE
       ELSE IF hits # {} THEN Cardinality(hits) = 1
       ELSE Promotes(Concat([k \in 1..Len(level) |-> Embedded(level[k])]), marker)

\* i.(INode) / i.(IRelationship): a struct type with the promoted methods,
\* or a pointer to one.
Implements(i, marker) ==
    /\ ~i.untyped
    /\ i.wrap \in {<<>>, <<"ptr">>}
    /\ Promotes(<<i.base>>, marker)

\* neo4jName and extractTagFromMatch: the name is the tag up to its first
\* comma, and a label is concrete unless the embedded type is Label.
neo4jName(f) ==
    [name |-> Split(f.tag.raw, ",")[1], concrete |-> f.typ.name # "Label"]

\* The loop of extractNeo4JName over its queue of types: every anonymous
\* field of struct type is queued, and its tag, if it has one, is appended.
RECURSIVE extractQueue_DepthFirst(_, _)
extractQueue_DepthFirst(queue, tags) ==
    IF queue = <<>> THEN tags
    ELSE LET emb == SelectSeq(Head(queue).fields, LAMBDA f : f.anon /\ f.kind = "struct")
             tagged == SelectSeq(emb, LAMBDA f : f.tag.has)
         IN extractQueue_DepthFirst([k \in 1..Len(emb) |-> emb[k].typ] \o Tail(queue),
                                    tags \o [k \in 1..Len(tagged) |-> neo4jName(tagged[k])])

\* A loop that also takes the named fields of struct type.
RECURSIVE extractQueue_NamedFields(_, _)
extractQueue_NamedFields(queue, tags) ==
    IF queue = <<>> THEN tags
    ELSE LET emb == SelectSeq(Head(queue).fields, LAMBDA f : f.kind = "struct")
             tagged == SelectSeq(emb, LAMBDA f : f.tag.has)
         IN extractQueue_NamedFields(Tail(queue) \o [k \in 1..Len(emb) |-> emb[k].typ],
                                     tags \o [k \in 1..Len(tagged) |-> neo4jName(tagged[k])])

RECURSIVE extractQueue(_, _)
extractQueue(queue, tags) ==
    IF queue = <<>> THEN tags
    ELSE LET emb == SelectSeq(Head(queue).fields, LAMBDA f : f.anon /\ f.kind = "struct")
             tagged == SelectSeq(emb, LAMBDA f : f.tag.has)
         IN extractQueue(Tail(queue) \o [k \in 1..Len(emb) |-> emb[k].typ],
                         tags \o [k \in 1..Len(tagged) |-> neo4jName(tagged[k])])

\* extractNeo4JName of a value whose type resolves through pointers to the
\* struct type t: the tags in the reverse of the order they were found;
\* of any other type it is an error.
extractNeo4JName(t) ==
    IF t \in {StringT, AnyT} THEN [err |-> TRUE, tags |-> <<>>]
    ELSE [err |-> FALSE, tags |-> Reverse(extractQueue(<<t>>, <<>>))]

\* Outcomes of extractNodeLabels: a nil slice, a slice of names, or the
\* panic of reflect.Value.Interface on the zero Value.
NilLabels == [panic |-> FALSE, isNil |-> TRUE, tags |-> <<>>]
LabelsPanic == [panic |-> TRUE, isNil |-> TRUE, tags |-> <<>>]

\* extractNodeLabels(i).  A value that is not an INode is unwrapped: each
\* v.Elem() is followed by v.Interface(), which panics on the zero Value
\* that Elem returns for a nil pointer.
RECURSIVE extractNodeLabels(_)
extractNodeLabels(i) ==
    IF i.untyped THEN NilLabels
    ELSE IF Implements(i, "Node")
    THEN LET r == extractNeo4JName(i.base)
         IN IF r.err THEN NilLabels
            ELSE [panic |-> FALSE, isNil |-> FALSE, tags |-> r.tags]
    ELSE IF Kind(i) = "ptr"
    THEN IF i.nilAt = 1 THEN LabelsPanic ELSE extractNodeLabels(Elem(i))
    ELSE IF Kind(i) \in {"slice", "array"} THEN extractNodeLabels(ZeroElem(i))
    ELSE NilLabels

\* ExtractNodeLabels(i): the names of the labels.
ExtractNodeLabels(i) ==
    LET r == extractNodeLabels(i)
    IN [panic |-> r.panic, isNil |-> r.isNil,
        labels |-> [k \in 1..Len(r.tags) |-> r.tags[k].name]]

\* ExtractConcreteNodeLabels(i): the names of the concrete labels.
ExtractConcreteNodeLabels(i) ==
    LET r == extractNodeLabels(i)
        c == SelectSeq(r.tags, LAMBDA l : l.concrete)
    IN [panic |-> r.panic, isNil |-> r.isNil,
        labels |-> [k \in 1..Len(c) |-> c[k].name]]

\* The pointer loop of ExtractRelationshipType: v.Elem() until v is not a
\* pointer; the zero Value of a nil pointer has the kind Invalid.
RECURSIVE derefValue(_)
derefValue(i) ==
    IF Kind(i) # "ptr" THEN [valid |-> TRUE, v |-> i]
    ELSE IF i.nilAt = 1 THEN [valid |-> FALSE, v |-> i]
    ELSE derefValue(Elem(i))

\* Outcomes of ExtractRelationshipType: a name ("" is the empty sequence) or
\* the panic on several types.
NoType == [panic |-> FALSE, name |-> <<>>]
TypePanic == [panic |-> TRUE, name |-> <<>>]

\* The end of ExtractRelationshipType, once the tags are extracted.
typeOfTags_First(tags) ==
    IF Len(tags) = 0 THEN NoType
    ELSE [panic |-> FALSE, name |-> tags[1].name]

typeOfTags(tags) ==
    IF Len(tags) > 1 THEN TypePanic
    ELSE IF Len(tags) = 0 THEN NoType
    ELSE [panic |-> FALSE, name |-> tags[1].name]

RECURSIVE ExtractRelationshipType(_)
ExtractRelationshipType(relationship) ==
    IF relationship.untyped THEN NoType
    ELSE IF ~Implements(relationship, "Relationship")
    THEN LET d == derefValue(relationship)
         IN IF d.valid /\ Kind(d.v) \in {"slice", "array"}
            THEN ExtractRelationshipType(ZeroElem(d.v))
            ELSE NoType
    ELSE LET r == extractNeo4JName(relationship.base)
         IN IF r.err THEN NoType ELSE typeOfTags(r.tags)

\* ------------------------------------------------------------------------
\* The extractor state machine: an argument, and one step per exported
\* function applied to it.

Pending == [pending |-> TRUE]

\* The hooks are not exercised: a zero record, never marshalled.
HooksIdle ==
    /\ base = [ptr |-> FALSE, nil |-> FALSE, val |-> ""]
    /\ locale = [ptr |-> FALSE, nil |-> FALSE, f |-> ZeroLocales]
    /\ selector = <<>>
    /\ from = NoMap
    /\ op = "none"
    /\ base0 = base
    /\ locale0 = locale
    /\ found = FALSE

InitTags ==
    /\ component = "tags"
    /\ \/ tagArg = UntypedNil
       \/ \E w \in Wraps : \E k \in 0..LeadingPtrs(w) : \E b \in BasesUnder(w) :
              tagArg = TypedArg(w, k, b)
    /\ tagLabels = Pending
    /\ tagRel = Pending
    /\ HooksIdle
    /\ PropTagIdle
    /\ PropsIdle
    /\ LaterIdle

ExtractLabels ==
    /\ component = "tags"
    /\ tagLabels = Pending
    /\ tagLabels' = ExtractNodeLabels(tagArg)
    /\ UNCHANGED <<component, hookVars, tagArg, tagRel, propTagVars, propsVars, laterVars>>

ExtractType ==
    /\ component = "tags"
    /\ tagRel = Pending
    /\ tagRel' = ExtractRelationshipType(tagArg)
    /\ UNCHANGED <<component, hookVars, tagArg, tagLabels, propTagVars, propsVars, laterVars>>

NextTags == ExtractLabels \/ ExtractType

SpecTags == InitTags /\ [][NextTags]_vars

\* ------------------------------------------------------------------------
\* Vocabulary of the extractor properties.

\* The text of a tag up to its first comma.
TagName(raw) ==
    LET commas == {k \in 1..Len(raw) : raw[k] = ","}
    IN IF commas = {} THEN raw ELSE SubSeq(raw, 1, Min(commas) - 1)

\* The anonymous fields of struct type of the types of one embedding depth,
\* in declaration order.
AnonymousStructFields(level) ==
    Concat([k \in 1..Len(level) |->
               SelectSeq(level[k].fields, LAMBDA f : f.anon /\ f.kind = "struct")])

\* The labels declared at each embedding depth below the types of `level`:
\* one sequence of names per depth, each in declaration order.
RECURSIVE LabelsByDepth(_)
LabelsByDepth(level) ==
    LET fs == AnonymousStructFields(level)
        tagged == SelectSeq(fs, LAMBDA f : f.tag.has)
    IN IF fs = <<>> THEN <<>>
       ELSE <<[k \in 1..Len(tagged) |-> TagName(tagged[k].tag.raw)]>>
            \o LabelsByDepth([k \in 1..Len(fs) |-> fs[k].typ])

\* Deepest depth first, and within a depth the last declared first.
MostGeneralFirst(t) ==
    LET byDepth == LabelsByDepth(<<t>>)
    IN Concat([k \in 1..Len(byDepth) |-> Reverse(byDepth[Len(byDepth) + 1 - k])])

\* struct { swedishPerson; robot }
swedishRobot ==
    [name |-> "composed",
     fields |-> <<Field(TRUE, "struct", NoTag, swedishPerson),
                  Field(TRUE, "struct", NoTag, robot)>>]

ValueOf(t) == TypedArg(<<>>, 0, t)

LabelsDone == tagLabels # Pending

TypeDone == tagRel # Pending

\* ------------------------------------------------------------------------
\* C11: the labels of a node come out most general first: every label
\* declared at a greater embedding depth precedes every label declared at a
\* smaller one (the reverse of the breadth-first order in which the
\* anonymous struct embeddings are discovered); the chain foreignPerson
\* gives Person, Swedish, Foreign and struct{swedishPerson; robot} gives
\* Person, Robot, Swedish.
C11_MostGeneralFirst ==
    (LabelsDone /\ Implements(tagArg, "Node")) =>
        /\ ~tagLabels.panic
        /\ tagLabels.labels = MostGeneralFirst(tagArg.base)
        /\ (tagArg.base = foreignPerson =>
                tagLabels.labels = <<PersonL, SwedishL, ForeignL>>)
        /\ (tagArg.base = swedishRobot =>
                tagLabels.labels = <<PersonL, RobotL, SwedishL>>)

C11_Witness ==
    /\ LabelsDone
    /\ tagArg = ValueOf(swedishRobot)
    /\ tagLabels.labels = <<PersonL, RobotL, SwedishL>>

\* The type annotations carried by the composition graph of a struct type.
Annotations(t) == Concat(LabelsByDepth(<<t>>))

\* The argument is a plain value: no pointer, slice or array around it.
PlainValue == ~tagArg.untyped /\ tagArg.wrap = <<>>

\* ------------------------------------------------------------------------
\* C12: for a relationship record ExtractRelationshipType aborts with a
\* panic when the composition graph carries more than one type annotation,
\* returns the annotated name when it carries exactly one, and returns ""
\* when it carries none; for a value that is not a relationship record it
\* returns "" and does not abort.
C12_OneRelationshipType ==
    (TypeDone /\ PlainValue) =>
        IF Implements(tagArg, "Relationship")
        THEN LET n == Len(Annotations(tagArg.base))
             IN /\ (n > 1 => tagRel.panic)
                /\ (n = 1 => tagRel = [panic |-> FALSE, name |-> Annotations(tagArg.base)[1]])
                /\ (n = 0 => tagRel = NoType)
                /\ (tagArg.base = friendship =>
                        tagRel = [panic |-> FALSE, name |-> FriendshipL])
        ELSE tagRel = NoType

C12_Witness ==
    /\ TypeDone
    /\ PlainValue
    /\ Implements(tagArg, "Relationship")
    /\ Len(Annotations(tagArg.base)) = 2
    /\ tagRel.panic

\* The chains of wrappers of a container of a record type: a slice or array
\* of the record or of pointers to it, or pointers of any depth to such a
\* slice or array or to the record.
RECURSIVE ContainerWrap(_)
ContainerWrap(w) ==
    IF w = <<>> THEN TRUE
    ELSE IF w[1] = "ptr" THEN ContainerWrap(Tail(w))
    ELSE Tail(w) \in {<<>>, <<"ptr">>}

\* The argument is a container of a record type with every pointer that
\* leads to the slice, array or record set.
ContainerOfRecord ==
    /\ ~tagArg.untyped
    /\ tagArg.wrap # <<>>
    /\ ContainerWrap(tagArg.wrap)
    /\ tagArg.nilAt = 0
    /\ tagArg.base \in StructTypes

\* ------------------------------------------------------------------------
\* C13: label extraction and relationship-type extraction applied to a
\* slice or array of a record type T (or of pointers to T), or to a pointer
\* of any depth to such a slice or to T, give what they give for a value of
\* T.
C13_SeesThroughContainers ==
    ContainerOfRecord =>
        /\ (LabelsDone => tagLabels = ExtractNodeLabels(ValueOf(tagArg.base)))
        /\ (TypeDone => tagRel = ExtractRelationshipType(ValueOf(tagArg.base)))

\* The argument is the untyped nil or a nil pointer, whatever it points to.
NilArgument == tagArg.untyped \/ (tagArg.wrap # <<>> /\ tagArg.wrap[1] = "ptr" /\ tagArg.nilAt = 1)

\* ------------------------------------------------------------------------
\* C14: for the untyped nil and for a nil pointer of any pointee type
\* ExtractNodeLabels returns nothing and ExtractRelationshipType returns "",
\* and neither aborts.
C14_NilIsSilent ==
    NilArgument =>
        /\ (LabelsDone => ~tagLabels.panic /\ tagLabels.labels = <<>>)
        /\ (TypeDone => tagRel = NoType)

\* The annotations on the anonymous fields of struct type of a type and of
\* the types it embeds that way, each as often as it is declared.
RECURSIVE EmbeddingLabels(_)
EmbeddingLabels(t) ==
    LET emb == SelectSeq(t.fields, LAMBDA f : f.anon /\ f.kind = "struct")
    IN Concat([k \in 1..Len(emb) |->
                  (IF emb[k].tag.has THEN <<TagName(emb[k].tag.raw)>> ELSE <<>>)
                      \o EmbeddingLabels(emb[k].typ)])

Range(s) == {s[k] : k \in 1..Len(s)}

\* The annotated fields of a type that are named or not of struct type.
OtherAnnotated(t) ==
    {k \in 1..Len(t.fields) :
        t.fields[k].tag.has /\ ~(t.fields[k].anon /\ t.fields[k].kind = "struct")}

\* ------------------------------------------------------------------------
\* C25: the labels extracted for a type are the annotations of its
\* anonymous embeddings of struct type, over all embedding depths, and
\* nothing else: there are as many labels as such annotations, every label
\* is one of them, and the annotation of a named field, of an anonymous
\* field that is no struct, or of a type reached through a named field is
\* not among the labels.
C25_OnlyAnonymousEmbeddings ==
    (LabelsDone /\ ~tagLabels.panic /\ ~tagLabels.isNil) =>
        /\ Len(tagLabels.labels) = Len(EmbeddingLabels(tagArg.base))
        /\ Range(tagLabels.labels) = Range(EmbeddingLabels(tagArg.base))
        /\ \A k \in OtherAnnotated(tagArg.base) :
               TagName(tagArg.base.fields[k].tag.raw) \notin Range(tagLabels.labels)
        /\ (tagArg.base \in {personWithNonStructLabels, personWithAnonymousStructLabels} =>
                tagLabels.labels = <<PersonL, SwedishL>>)

\* struct { swedishPerson; S swedishPerson `neo4j:"Concrete"` }
C25_Witness ==
    /\ LabelsDone
    /\ tagArg = ValueOf(personWithAnonymousStructLabels)
    /\ tagLabels.labels = <<PersonL, SwedishL>>

\* ========================================================================
\* Property tags (src/internal/tags.go, PropTagForField and ParsePropTag).
\*
\* The text of a tag is a name followed by comma-separated options.

Dash == <<"-">>
FlattenOpt == <<"f", "l", "a", "t", "t", "e", "n">>
OmitEmptyOpt == <<"o", "m", "i", "t", "e", "m", "p", "t", "y">>

\* name,opt1,opt2...
RECURSIVE TagText(_, _)
TagText(name, opts) ==
    IF opts = <<>> THEN name
    ELSE TagText(name \o <<",">> \o Head(opts), Tail(opts))

TagNames == {<<>>, <<"a">>, <<"b">>, Dash}

TagOpts == {<<>>, <<FlattenOpt>>, <<OmitEmptyOpt>>, <<OmitEmptyOpt, FlattenOpt>>}

RawTags == {TagText(n, o) : n \in TagNames, o \in TagOpts}

\* sf.Tag.Lookup(key): absent, or the text of the tag.
RawTag(raw) == [has |-> TRUE, raw |-> raw]

TagLookups == {NoTag} \cup {RawTag(raw) : raw \in RawTags}

\* The tags of a struct field.
FieldTags == [db : TagLookups, json : TagLookups]

\* PropTag{}
ZeroPropTag ==
    [Name |-> <<>>, Flatten |-> FALSE, Ignore |-> FALSE, TagKey |-> "", RawOpts |-> <<>>]

ParsePropTag(key, raw) ==
    LET parts == Split(raw, ",")
        name == parts[1]
        opts == Tail(parts)
    IN [Name |-> name,
        Flatten |-> name # Dash /\ \E k \in 1..Len(opts) : opts[k] = FlattenOpt,
        Ignore |-> name = Dash,
        TagKey |-> key,
        RawOpts |-> opts]

PropTagForField_JsonFirst(sf) ==
    IF sf.json.has THEN [tag |-> ParsePropTag("json", sf.json.raw), ok |-> TRUE]
    ELSE IF sf.db.has THEN [tag |-> ParsePropTag("db", sf.db.raw), ok |-> TRUE]
    ELSE [tag |-> ZeroPropTag, ok |-> FALSE]

PropTagForField(sf) ==
    IF sf.db.has THEN [tag |-> ParsePropTag("db", sf.db.raw), ok |-> TRUE]
    ELSE IF sf.json.has THEN [tag |-> ParsePropTag("json", sf.json.raw), ok |-> TRUE]
    ELSE [tag |-> ZeroPropTag, ok |-> FALSE]

\* The tag parser state machine: a field, and the lookup of its directive.
InitPropTag ==
    /\ component = "proptag"
    /\ fieldTag \in FieldTags
    /\ propTag = Pending
    /\ HooksIdle
    /\ TagsIdle
    /\ PropsIdle
    /\ LaterIdle

LookupPropTag ==
    /\ component = "proptag"
    /\ propTag = Pending
    /\ propTag' = PropTagForField(fieldTag)
    /\ UNCHANGED <<component, hookVars, tagVars, fieldTag, propsVars, laterVars>>

SpecPropTag == InitPropTag /\ [][LookupPropTag]_vars

\* The directive a tag text spells: its name, and whether it says ignore or
\* flatten.
Spells(raw, tag) ==
    \E n \in TagNames : \E o \in TagOpts :
        /\ raw = TagText(n, o)
        /\ tag.Name = n
        /\ tag.Ignore = (n = Dash)
        /\ tag.Flatten = (n # Dash /\ \E k \in 1..Len(o) : o[k] = FlattenOpt)

\* ------------------------------------------------------------------------
\* C15: the directive of a field that carries a db tag is the one the db tag
\* spells, its name, flatten and ignore values taken from the db tag alone
\* whatever the json tag says; the json tag is used only when there is no db
\* tag, and a field with neither tag has no directive.
C15_DbTakesPrecedence ==
    propTag # Pending =>
        IF fieldTag.db.has
        THEN propTag.ok /\ propTag.tag.TagKey = "db" /\ Spells(fieldTag.db.raw, propTag.tag)
        ELSE IF fieldTag.json.has
        THEN propTag.ok /\ propTag.tag.TagKey = "json" /\ Spells(fieldTag.json.raw, propTag.tag)
        ELSE ~propTag.ok /\ propTag.tag = ZeroPropTag

C15_Witness ==
    /\ propTag # Pending
    /\ fieldTag.db = RawTag(<<"a">>)
    /\ fieldTag.json = RawTag(TagText(Dash, <<FlattenOpt>>))
    /\ propTag.ok
    /\ propTag.tag.Name = <<"a">>
    /\ ~propTag.tag.Ignore
    /\ ~propTag.tag.Flatten

\* ========================================================================
\* The property serializer (src/props.go, PropsFromStruct and collectProps).
\*
\* A value is a string, a pointer (nil or not, with the value it points to;
\* a nil pointer carries the zero value of its element type, which stands
\* for that type) or a struct, the sequence of its fields.  A field has its
\* Go name, whether it is anonymous, its db and json tags and its value.
\* Keys of the property map are sequences of one-letter strings.

\* Largest number of fields of the record that is serialized.
MaxProps == 2

StrVal(x) == [kind |-> "string", s |-> x]
PtrTo(v) == [kind |-> "ptr", nil |-> FALSE, elem |-> v]
NilPtr(zero) == [kind |-> "ptr", nil |-> TRUE, elem |-> zero]
StructVal(name, fields) == [kind |-> "struct", type |-> name, fields |-> fields]

SField(name, anon, tags, val) == [name |-> name, anon |-> anon, tags |-> tags, val |-> val]

\* Tags of the fields.
Untagged == [db |-> NoTag, json |-> NoTag]
DbTag(raw) == [db |-> RawTag(raw), json |-> NoTag]
JsonTag(raw) == [db |-> NoTag, json |-> RawTag(raw)]

LeafTags ==
    {Untagged, DbTag(<<"a">>), DbTag(<<"b">>), DbTag(<<>>), JsonTag(<<"a">>),
     [db |-> RawTag(<<"b">>), json |-> RawTag(Dash)], DbTag(Dash),
     DbTag(<<"a", "_", "b">>), DbTag(TagText(<<"a">>, <<FlattenOpt>>))}

\* The struct types of the fields: Inner { B string `db:"b"` },
\* Other { A string `db:"a"` } and the unexported hidden { A string `db:"a"` }.
InnerName == <<"I", "n", "n", "e", "r">>
OtherName == <<"O", "t", "h", "e", "r">>
HiddenName == <<"h", "i", "d", "d", "e", "n">>

Inner(x) == StructVal(InnerName, <<SField(<<"B">>, FALSE, DbTag(<<"b">>), StrVal(x))>>)
Other(x) == StructVal(OtherName, <<SField(<<"A">>, FALSE, DbTag(<<"a">>), StrVal(x))>>)
Hidden(x) == StructVal(HiddenName, <<SField(<<"A">>, FALSE, DbTag(<<"a">>), StrVal(x))>>)

\* Names of the named fields, by position.
ExportedNames == <<<<"A">>, <<"B">>, <<"C">>, <<"D">>>>
UnexportedNames == <<<<"a">>, <<"b">>, <<"c">>, <<"d">>>>

\* The fields a record may have at position i.
LeafFields(i) ==
    {SField(ExportedNames[i], FALSE, t, StrVal(x)) : t \in LeafTags, x \in {"", "x"}}
    \cup {SField(UnexportedNames[i], FALSE, t, StrVal("x")) :
             t \in {DbTag(<<"a">>), DbTag(TagText(<<"a">>, <<FlattenOpt>>))}}

InnerValues == {Inner(""), Inner("x"), PtrTo(Inner("")), PtrTo(Inner("x")), NilPtr(Inner(""))}

StructFieldsAt(i) ==
    {SField(ExportedNames[i], FALSE, DbTag(TagText(<<"a">>, <<FlattenOpt>>)), v) :
        v \in InnerValues}
    \cup {SField(ExportedNames[i], FALSE, DbTag(TagText(<<>>, <<FlattenOpt>>)), v) :
             v \in {Inner(""), Inner("x"), NilPtr(Inner(""))}}
    \cup {SField(ExportedNames[i], FALSE, DbTag(<<"a">>), v) : v \in {Inner(""), Inner("x")}}
    \cup {SField(InnerName, TRUE, Untagged, v) :
             v \in {Inner(""), Inner("x"), PtrTo(Inner("x")), NilPtr(Inner(""))}}
    \cup {SField(OtherName, TRUE, Untagged, Other("x")),
          SField(HiddenName, TRUE, Untagged, Hidden("x"))}

FieldsAt(i) == LeafFields(i) \cup StructFieldsAt(i)

\* The field names of a struct type are distinct.
DistinctNames(fs) == \A i, j \in 1..Len(fs) : fs[i].name = fs[j].name => i = j

RECURSIVE RecordFields(_)
RecordFields(n) ==
    IF n = 0 THEN {<<>>}
    ELSE {Append(fs, f) : fs \in RecordFields(n - 1), f \in FieldsAt(n)}

RecordName == <<"R", "e", "c", "o", "r", "d">>

Records ==
    {StructVal(RecordName, fs) :
        fs \in {gs \in UNION {RecordFields(n) : n \in 0..MaxProps} : DistinctNames(gs)}}

\* nestedOuter { Inner nestedInner `json:"outer,flatten"` },
\* nestedInner { Leaf nestedLeaf `json:"inner,flatten"` } and
\* nestedLeaf { Value string `json:"value"` }: three nested flatten levels.
OuterKey == <<"o", "u", "t", "e", "r">>
InnerKey == <<"i", "n", "n", "e", "r">>
ValueKey == <<"v", "a", "l", "u", "e">>

nestedLeaf(x) ==
    StructVal(<<"n", "e", "s", "t", "e", "d", "L", "e", "a", "f">>,
        <<SField(<<"V", "a", "l", "u", "e">>, FALSE, JsonTag(ValueKey), StrVal(x))>>)

nestedInner(x) ==
    StructVal(<<"n", "e", "s", "t", "e", "d", "I", "n", "n", "e", "r">>,
        <<SField(<<"L", "e", "a", "f">>, FALSE,
                 JsonTag(TagText(InnerKey, <<FlattenOpt>>)), nestedLeaf(x))>>)

nestedOuter(x) ==
    StructVal(<<"n", "e", "s", "t", "e", "d", "O", "u", "t", "e", "r">>,
        <<SField(InnerName, FALSE,
                 JsonTag(TagText(OuterKey, <<FlattenOpt>>)), nestedInner(x))>>)

NestedRecords == {nestedOuter(""), nestedOuter("x")}

\* ft.PkgPath == "": the name of the field starts with an upper-case letter.
IsExported_Always(name) == TRUE

IsExported(name) == \E i \in 1..Len(UpperLetters) : UpperLetters[i] = name[1]

\* reflect.Value.IsZero()
RECURSIVE IsZero(_)
IsZero(v) ==
    IF v.kind = "string" THEN v.s = ""
    ELSE IF v.kind = "ptr" THEN v.nil
    ELSE \A i \in 1..Len(v.fields) : IsZero(v.fields[i].val)

\* derefAll(value): the zero reflect.Value for a nil pointer.
RECURSIVE derefAll(_)
derefAll(value) ==
    IF value.kind # "ptr" THEN [valid |-> TRUE, v |-> value]
    ELSE IF value.nil THEN [valid |-> FALSE, v |-> value]
    ELSE derefAll(value.elem)

\* ValidateFlattenType(ft.Type) has no error: the type resolves through
\* pointers to a struct type.
RECURSIVE ValidateFlattenType(_)
ValidateFlattenType(v) ==
    IF v.kind = "ptr" THEN ValidateFlattenType(v.elem) ELSE v.kind = "struct"

\* DefaultPropName(fieldName) of a field name without word separators:
\* the name with its first letter in lower case.
DefaultPropName(fieldName) == lcFirst(fieldName)

JoinPrefix_NoSeparator(prefix, name) ==
    IF prefix = <<>> THEN name ELSE prefix \o name

JoinPrefix(prefix, name) ==
    IF prefix = <<>> THEN name ELSE prefix \o <<"_">> \o name

\* The state of a traversal: the error that ended it ("none" while it goes
\* on) and the property map built so far.
NoProps == <<>>

EmptyState == [err |-> "none", props |-> NoProps]

\* The Go name of the field, as declared, when the tag names none.
PropName_FieldName(f, tag) == IF tag.Name = <<>> THEN f.name ELSE tag.Name

\* tag.Name, or the default name of the field when the tag names none.
PropName(f, tag) == IF tag.Name = <<>> THEN DefaultPropName(f.name) ELSE tag.Name

\* The end of the loop body of collectProps, for a field with a directive
\* that is neither ignore nor flatten: a zero value is skipped, a key
\* already in the map is an error, otherwise the value is stored.
plainField_KeepZero(f, tag, prefix, st) ==
    LET key == JoinPrefix(prefix, PropName(f, tag))
    IN IF key \in DOMAIN st.props THEN [err |-> "duplicate", props |-> st.props]
       ELSE [err |-> "none", props |-> (key :> f.val) @@ st.props]

plainField_Overwrite(f, tag, prefix, st) ==
    LET key == JoinPrefix(prefix, PropName(f, tag))
    IN IF IsZero(f.val) THEN st
       ELSE [err |-> "none", props |-> (key :> f.val) @@ st.props]

plainField(f, tag, prefix, st) ==
    LET key == JoinPrefix(prefix, PropName(f, tag))
    IN IF IsZero(f.val) THEN st
       ELSE IF key \in DOMAIN st.props THEN [err |-> "duplicate", props |-> st.props]
       ELSE [err |-> "none", props |-> (key :> f.val) @@ st.props]

RECURSIVE collectProps(_, _, _)
RECURSIVE collectFields(_, _, _, _)

\* The flatten branch of collectProps: the type is validated before the
\* value is looked at; a nil pointer and a zero value are skipped; the
\* fields of the value are collected under the joined prefix.
flattenField_ZeroFirst(f, tag, prefix, st) ==
    IF f.val.kind = "ptr" /\ f.val.nil THEN st
    ELSE IF IsZero(f.val) THEN st
    ELSE IF ~ValidateFlattenType(f.val) THEN [err |-> "flatten", props |-> st.props]
    ELSE collectProps(f.val, JoinPrefix(prefix, PropName(f, tag)), st)

flattenField(f, tag, prefix, st) ==
    IF ~ValidateFlattenType(f.val) THEN [err |-> "flatten", props |-> st.props]
    ELSE IF f.val.kind = "ptr" /\ f.val.nil THEN st
    ELSE IF IsZero(f.val) THEN st
    ELSE collectProps(f.val, JoinPrefix(prefix, PropName(f, tag)), st)

\* The loop body of collectProps for one field.
collectField(f, prefix, st) ==
    LET d == PropTagForField(f.tags)
    IN IF ~IsExported(f.name) THEN st
       ELSE IF d.ok /\ d.tag.Ignore THEN st
       ELSE IF ~d.ok
       THEN IF f.anon THEN collectProps(f.val, prefix, st) ELSE st
       ELSE IF d.tag.Flatten THEN flattenField(f, d.tag, prefix, st)
       ELSE plainField(f, d.tag, prefix, st)

\* The loop of collectProps from field i on; an error ends it.
collectFields(fs, i, prefix, st) ==
    IF i > Len(fs) \/ st.err # "none" THEN st
    ELSE collectFields(fs, i + 1, prefix, collectField(fs[i], prefix, st))

collectProps(value, prefix, st) ==
    LET d == derefAll(value)
    IN IF ~d.valid \/ d.v.kind # "struct" THEN st
       ELSE collectFields(d.v.fields, 1, prefix, st)

\* PropsFromStruct that takes a nil pointer for a value that is no struct.
PropsFromStruct_NilFails(value) ==
    LET d == derefAll(value)
    IN IF ~d.valid \/ d.v.kind # "struct"
       THEN [err |-> "notstruct", isNil |-> TRUE, props |-> NoProps]
       ELSE LET st == collectProps(d.v, <<>>, EmptyState)
            IN IF st.err # "none" THEN [err |-> st.err, isNil |-> TRUE, props |-> NoProps]
               ELSE [err |-> "none", isNil |-> FALSE, props |-> st.props]

\* PropsFromStruct(value): the empty map for a nil pointer, an error for a
\* value that is not a struct, and no map when collectProps fails.
PropsFromStruct(value) ==
    LET d == derefAll(value)
    IN IF ~d.valid THEN [err |-> "none", isNil |-> FALSE, props |-> NoProps]
       ELSE IF d.v.kind # "struct" THEN [err |-> "notstruct", isNil |-> TRUE, props |-> NoProps]
       ELSE LET st == collectProps(d.v, <<>>, EmptyState)
            IN IF st.err # "none" THEN [err |-> st.err, isNil |-> TRUE, props |-> NoProps]
               ELSE [err |-> "none", isNil |-> FALSE, props |-> st.props]

\* ------------------------------------------------------------------------
\* The Scope Binder and the reconstruction of a record from a property map
\* are described by the design document only (sections 4.4 and 8): the
\* binder registers every field reachable by transparent composition and
\* through flatten directives under identifier + "." + joined path, whether
\* the field is zero or not, and skips a nil pointer sub-record.

\* join("", n) = n, join(p, n) = p + "_" + n
JoinedPath(prefix, name) == IF prefix = <<>> THEN name ELSE prefix \o <<"_">> \o name

\* The segment of a field: the name of its directive, or the field name with
\* its first letter in lower case.
Segment(f, tag) == IF tag.Name = <<>> THEN <<ToLower(f.name[1])>> \o Tail(f.name) ELSE tag.Name

StartsLower(name) == \E i \in 1..Len(LowerLetters) : LowerLetters[i] = name[1]

RECURSIVE bindFields(_, _)
RECURSIVE bindStruct(_, _, _)
bindStruct(fs, i, prefix) ==
    IF i > Len(fs) THEN {}
    ELSE LET f == fs[i]
             d == PropTagForField(f.tags)
             here ==
                 IF StartsLower(f.name) \/ (d.ok /\ d.tag.Ignore) THEN {}
                 ELSE IF ~d.ok THEN (IF f.anon THEN bindFields(f.val, prefix) ELSE {})
                 ELSE IF d.tag.Flatten THEN bindFields(f.val, JoinedPath(prefix, Segment(f, d.tag)))
                 ELSE {JoinedPath(prefix, Segment(f, d.tag))}
         IN here \cup bindStruct(fs, i + 1, prefix)

\* The joined paths of the fields the binder registers below a value.
bindFields(value, prefix) ==
    IF value.kind = "ptr" THEN (IF value.nil THEN {} ELSE bindFields(value.elem, prefix))
    ELSE IF value.kind = "struct" THEN bindStruct(value.fields, 1, prefix)
    ELSE {}

\* The identifier the record is bound under, and its qualified names.
BindId == <<"p">>

Qualified(path) == BindId \o <<".">> \o path

BindRecord(value) == {Qualified(path) : path \in bindFields(value, <<>>)}

\* The zero value of the type of a value.
RECURSIVE ZeroOf(_)
ZeroOf(v) ==
    IF v.kind = "string" THEN StrVal("")
    ELSE IF v.kind = "ptr" THEN NilPtr(ZeroOf(v.elem))
    ELSE StructVal(v.type,
             [i \in 1..Len(v.fields) |-> [v.fields[i] EXCEPT !.val = ZeroOf(v.fields[i].val)]])

\* The record of the type of `value` that holds what the map m holds and
\* nothing else: a field with a key of m has the value of that key, every
\* other field is zero, and a pointer is set when something below it is.
RECURSIVE Reconstruct(_, _, _)
RECURSIVE reconstructField(_, _, _)
reconstructField(f, prefix, m) ==
    LET d == PropTagForField(f.tags)
    IN IF StartsLower(f.name) \/ (d.ok /\ d.tag.Ignore) THEN ZeroOf(f.val)
       ELSE IF ~d.ok THEN (IF f.anon THEN Reconstruct(f.val, prefix, m) ELSE ZeroOf(f.val))
       ELSE IF d.tag.Flatten
       THEN Reconstruct(f.val, JoinedPath(prefix, Segment(f, d.tag)), m)
       ELSE IF JoinedPath(prefix, Segment(f, d.tag)) \in DOMAIN m
       THEN m[JoinedPath(prefix, Segment(f, d.tag))]
       ELSE ZeroOf(f.val)

Reconstruct(value, prefix, m) ==
    IF value.kind = "string" THEN ZeroOf(value)
    ELSE IF value.kind = "ptr"
    THEN LET e == Reconstruct(value.elem, prefix, m)
         IN IF IsZero(e) THEN NilPtr(ZeroOf(value.elem)) ELSE PtrTo(e)
    ELSE StructVal(value.type,
             [i \in 1..Len(value.fields) |->
                 [value.fields[i] EXCEPT !.val = reconstructField(value.fields[i], prefix, m)]])

\* ------------------------------------------------------------------------
\* The serializer state machine: a value, its serialization, its binding,
\* and its replacement by the record reconstructed from its own output.

\* What PropsFromStruct is handed: a record, a pointer to one, a nil pointer
\* or a value that is not a struct.
PropsArgs(r) == {r, PtrTo(r), NilPtr(ZeroOf(r)), StrVal("x")}

InitProps ==
    /\ component = "props"
    /\ \E r \in Records \cup NestedRecords : propsArg \in PropsArgs(r)
    /\ propsOut = Pending
    /\ propsOut0 = Pending
    /\ bound = Pending
    /\ HooksIdle
    /\ TagsIdle
    /\ PropTagIdle
    /\ LaterIdle

\* PropsFromStruct(propsArg)
Serialize ==
    /\ component = "props"
    /\ propsOut = Pending
    /\ propsOut' = PropsFromStruct(propsArg)
    /\ UNCHANGED <<component, hookVars, tagVars, propTagVars, propsArg, propsOut0, bound, laterVars>>

\* The Scope Binder binds the value under the identifier p.
Bind ==
    /\ component = "props"
    /\ bound = Pending
    /\ propsOut0 = Pending
    /\ bound' = [names |-> BindRecord(propsArg)]
    /\ UNCHANGED <<component, hookVars, tagVars, propTagVars, propsArg, propsOut, propsOut0, laterVars>>

\* The value is replaced by the one reconstructed from its property map.
Rebuild ==
    /\ component = "props"
    /\ propsOut # Pending
    /\ propsOut0 = Pending
    /\ propsOut.err = "none"
    /\ propsArg' = Reconstruct(propsArg, <<>>, propsOut.props)
    /\ propsOut0' = propsOut
    /\ propsOut' = Pending
    /\ UNCHANGED <<component, hookVars, tagVars, propTagVars, bound, laterVars>>

NextProps == Serialize \/ Bind \/ Rebuild

SpecProps == InitProps /\ [][NextProps]_vars

\* ------------------------------------------------------------------------
\* Vocabulary of the serializer properties.

\* The field directives of a record type that map to a key: the exported
\* fields with a directive that is neither ignore nor flatten, found directly,
\* through exported anonymous composition and through flatten prefixes.  Each
\* comes with its joined key, the value of the field, whether the serializer
\* would emit it (it is not zero and no nil pointer or zero flatten struct
\* lies on the way) and whether it exists in memory (no nil pointer on the
\* way).
RECURSIVE Directives(_, _, _, _)
RECURSIVE DirectivesFrom(_, _, _, _, _)
DirectivesFrom(fs, i, prefix, live, inMemory) ==
    IF i > Len(fs) THEN <<>>
    ELSE LET f == fs[i]
             d == PropTagForField(f.tags)
             here ==
                 IF StartsLower(f.name) \/ (d.ok /\ d.tag.Ignore) THEN <<>>
                 ELSE IF ~d.ok
                 THEN IF f.anon THEN Directives(f.val, prefix, live, inMemory) ELSE <<>>
                 ELSE IF d.tag.Flatten
                 THEN Directives(f.val, JoinedPath(prefix, Segment(f, d.tag)),
                                 live /\ ~IsZero(f.val), inMemory)
                 ELSE <<[key |-> JoinedPath(prefix, Segment(f, d.tag)),
                         val |-> f.val,
                         live |-> live /\ ~IsZero(f.val),
                         inMemory |-> inMemory]>>
         IN here \o DirectivesFrom(fs, i + 1, prefix, live, inMemory)

Directives(value, prefix, live, inMemory) ==
    IF value.kind = "ptr"
    THEN Directives(value.elem, prefix, live /\ ~value.nil, inMemory /\ ~value.nil)
    ELSE IF value.kind = "struct"
    THEN DirectivesFrom(value.fields, 1, prefix, live, inMemory)
    ELSE <<>>

ArgDirectives == Directives(propsArg, <<>>, TRUE, TRUE)

\* The argument is a record or a pointer to one, as first handed over.
RecordArg ==
    /\ propsArg.kind \in {"struct", "ptr"}
    /\ derefAll(propsArg).valid
    /\ propsOut0 = Pending

Serialized == propsOut # Pending

SharedKey(i, j) == i # j /\ ArgDirectives[i].key = ArgDirectives[j].key

\* The fields with a flatten directive whose type does not resolve through
\* pointers to a struct type, among the exported fields of a value and of
\* what it composes anonymously or flattens.
RECURSIVE Misconfigured(_)
Misconfigured(value) ==
    IF value.kind = "ptr" THEN Misconfigured(value.elem)
    ELSE IF value.kind # "struct" THEN FALSE
    ELSE \E i \in 1..Len(value.fields) :
            LET f == value.fields[i]
                d == PropTagForField(f.tags)
            IN /\ ~StartsLower(f.name)
               /\ ~(d.ok /\ d.tag.Ignore)
               /\ IF ~d.ok THEN f.anon /\ Misconfigured(f.val)
                  ELSE d.tag.Flatten
                       /\ (Misconfigured(f.val) \/ ~ValidateFlattenType(f.val))

\* ------------------------------------------------------------------------
\* C17 as claimed: whenever two field directives of a record map to the
\* same joined key, serialization fails with the duplicate-key error and
\* returns no property map.
C17_SharedKeyAlwaysFails ==
    (RecordArg /\ Serialized) =>
        ((\E i, j \in 1..Len(ArgDirectives) : SharedKey(i, j))
             => propsOut.err = "duplicate" /\ propsOut.isNil)

\* C17: whenever two field directives of a record map to the same joined
\* key and both fields would be emitted (each holds a non-zero value and no
\* nil pointer or zero flatten record lies on the way), serialization fails
\* and returns no property map, with the duplicate-key error unless the
\* record also has a misconfigured flatten field; the duplicate-key error
\* occurs in no other case, and a map that is returned holds the value of
\* the one field of each key that is emitted.
C17_EmittedSharedKeyFails ==
    (RecordArg /\ Serialized) =>
        /\ (\E i, j \in 1..Len(ArgDirectives) :
                SharedKey(i, j) /\ ArgDirectives[i].live /\ ArgDirectives[j].live)
               => /\ propsOut.err \in {"duplicate", "flatten"}
                  /\ propsOut.isNil
                  /\ (~Misconfigured(propsArg) => propsOut.err = "duplicate")
        /\ propsOut.err = "duplicate"
               => \E i, j \in 1..Len(ArgDirectives) :
                      SharedKey(i, j) /\ ArgDirectives[i].live /\ ArgDirectives[j].live
        /\ propsOut.err = "none"
               => \A i \in 1..Len(ArgDirectives) :
                      ArgDirectives[i].live
                      => /\ ArgDirectives[i].key \in DOMAIN propsOut.props
                         /\ propsOut.props[ArgDirectives[i].key] = ArgDirectives[i].val

\* The key a_b of a flattened field collides with the key of a field tagged
\* a_b, both non-zero.
C17_Witness ==
    /\ RecordArg
    /\ Serialized
    /\ propsArg = StructVal(RecordName,
           <<SField(<<"A">>, FALSE, DbTag(TagText(<<"a">>, <<FlattenOpt>>)), Inner("x")),
             SField(<<"B">>, FALSE, DbTag(<<"a", "_", "b">>), StrVal("x"))>>)
    /\ propsOut = [err |-> "duplicate", isNil |-> TRUE, props |-> NoProps]

\* Field i of the record handed over is exported and has a flatten directive
\* on a type that does not resolve through pointers to a struct type.
BadFlattenField(i) ==
    LET f == derefAll(propsArg).v.fields[i]
        d == PropTagForField(f.tags)
    IN /\ ~StartsLower(f.name)
       /\ d.ok
       /\ d.tag.Flatten
       /\ ~ValidateFlattenType(f.val)

\* ------------------------------------------------------------------------
\* C18: serializing a record that has an exported field with a flatten
\* directive whose type does not resolve through pointers to a record type
\* returns an error and no map, whatever the value of the field, its zero
\* value included; the flatten error is returned only when the record has
\* such a field, so a flatten field of record or pointer-to-record type does
\* not cause it.
C18_FlattenNeedsRecordType ==
    (RecordArg /\ Serialized) =>
        /\ (\E i \in 1..Len(derefAll(propsArg).v.fields) : BadFlattenField(i))
               => propsOut.err # "none" /\ propsOut.isNil
        /\ propsOut.err = "flatten" => Misconfigured(propsArg)

\* A zero string with a flatten directive, next to a flattened record.
C18_Witness ==
    /\ RecordArg
    /\ Serialized
    /\ propsArg = StructVal(RecordName,
           <<SField(<<"A">>, FALSE, DbTag(TagText(<<>>, <<FlattenOpt>>)), Inner("x")),
             SField(<<"B">>, FALSE, DbTag(TagText(<<"a">>, <<FlattenOpt>>)), StrVal(""))>>)
    /\ propsOut = [err |-> "flatten", isNil |-> TRUE, props |-> NoProps]

\* The value without its unexported fields, at every depth.
RECURSIVE Strip(_)
Strip(v) ==
    IF v.kind = "string" THEN v
    ELSE IF v.kind = "ptr" THEN [v EXCEPT !.elem = Strip(v.elem)]
    ELSE LET kept == SelectSeq(v.fields, LAMBDA f : ~StartsLower(f.name))
         IN StructVal(v.type, [i \in 1..Len(kept) |-> [kept[i] EXCEPT !.val = Strip(kept[i].val)]])

\* ------------------------------------------------------------------------
\* C19: an unexported field is skipped before any other rule applies: the
\* outcome of serializing a record, map or error, is the outcome for the
\* record without its unexported fields, so an unexported field contributes
\* no key and no error whatever its tags and value; an anonymously embedded
\* record of unexported type is such a field, and none of its exported,
\* tagged, non-zero fields is emitted.
C19_UnexportedSkippedFirst ==
    (RecordArg /\ Serialized) =>
        /\ propsOut = PropsFromStruct(Strip(propsArg))
        /\ (\A i \in 1..Len(derefAll(propsArg).v.fields) :
                StartsLower(derefAll(propsArg).v.fields[i].name))
               => propsOut = [err |-> "none", isNil |-> FALSE, props |-> NoProps]

\* An embedded record of the unexported type hidden, whose field A is
\* exported, tagged a and non-zero, next to an exported field: only the
\* latter is emitted.
C19_Witness ==
    /\ RecordArg
    /\ Serialized
    /\ propsArg = StructVal(RecordName,
           <<SField(HiddenName, TRUE, Untagged, Hidden("x")),
             SField(<<"B">>, FALSE, DbTag(<<"b">>), StrVal("x"))>>)
    /\ propsOut = [err |-> "none", isNil |-> FALSE, props |-> (<<"b">> :> StrVal("x"))]

\* The argument was reconstructed from its own property map, which is
\* propsOut0, and serialized again.
RoundTripDone == propsOut0 # Pending /\ Serialized

\* No two field directives of the type of the argument map to one key.
DistinctKeys == \A i, j \in 1..Len(ArgDirectives) : ~SharedKey(i, j)

C27_SerializerBinderAgree ==
    (RecordArg /\ Serialized /\ bound # Pending /\ propsOut.err = "none") =>
        /\ \A k \in DOMAIN propsOut.props : Qualified(k) \in bound.names
        /\ (\A i \in 1..Len(ArgDirectives) : ArgDirectives[i].live) =>
               bound.names = {Qualified(k) : k \in DOMAIN propsOut.props}

\* Three nested flatten levels: the leaf is emitted as outer_inner_value and
\* registered as p.outer_inner_value.
C27_Witness ==
    /\ RecordArg
    /\ propsArg = nestedOuter("x")
    /\ Serialized
    /\ bound # Pending
    /\ DOMAIN propsOut.props = {OuterKey \o <<"_">> \o InnerKey \o <<"_">> \o ValueKey}
    /\ bound.names = {<<"p", ".">> \o OuterKey \o <<"_">> \o InnerKey \o <<"_">> \o ValueKey}

\* ========================================================================
\* The configuration and its hook chains (Config, WithMarshalHook,
\* WithUnmarshalHook and WithLocales, src/hooks_test.go:253-316).
\*
\* A hook is named by what it does to a hookPerson: the hooks of the tests
\* (src/unnamed/part_001:498-566) and the locale hooks WithLocales builds,
\* which carry the preference order they resolved.  The Name of the
\* hookPerson is the sequence of the pieces it was put together from.  The
\* registry that runs a chain (applyMarshalHooks, applyUnmarshalHooks) is
\* described by the design document (sections 3 and 7).

\* Longest chain of hooks of one direction.
MaxHooks == 2

\* func(...) error { setHookName(value, "first"); return nil }
SetFirst == [kind |-> "setFirst", keys |-> <<>>]

\* func(...) error { field.SetString(field.String() + "-second"); return nil }
AppendSecond == [kind |-> "appendSecond", keys |-> <<>>]

\* func(...) error { return expected }, for two errors.
Boom == [kind |-> "boom", keys |-> <<>>]
Bang == [kind |-> "bang", keys |-> <<>>]

TestHooks == {SetFirst, AppendSecond, Boom, Bang}

\* The closures of LocalesHookWithSelector and
\* LocalesUnmarshalHookWithSelector: they keep resolveKeys(selector).
LocalesHookWithSelector(sel) == [kind |-> "locales", keys |-> resolveKeys(sel)]

LocalesUnmarshalHookWithSelector(sel) == [kind |-> "localesUnmarshal", keys |-> resolveKeys(sel)]

\* The zero Config: no hooks, no preferred keys.
ZeroConfig == [MarshalHooks |-> <<>>, UnmarshalHooks |-> <<>>, LocalePreferredKeys |-> <<>>]

WithMarshalHook(hook, c) == [c EXCEPT !.MarshalHooks = Append(@, hook)]

WithUnmarshalHook(hook, c) == [c EXCEPT !.UnmarshalHooks = Append(@, hook)]

\* WithLocales(selector)(c): LocalePreferredKeys is what the selector
\* returns, unresolved.
WithLocales(sel, c) ==
    [c EXCEPT !.MarshalHooks = Append(@, LocalesHookWithSelector(sel)),
              !.UnmarshalHooks = Append(@, LocalesUnmarshalHookWithSelector(sel)),
              !.LocalePreferredKeys = sel]

\* The fields of hookPerson.
PersonFields == <<NameField>>

\* One hook called on a hookPerson: the error it returns and the record it
\* leaves.  The locale hooks find no field of hookPerson whose name ends in
\* Locale or Locales and change nothing.
CallHook(h, p) ==
    IF h.kind = "setFirst" THEN [err |-> "none", p |-> [p EXCEPT !.Name = <<"first">>]]
    ELSE IF h.kind = "appendSecond"
    THEN [err |-> "none", p |-> [p EXCEPT !.Name = Append(@, "-second")]]
    ELSE IF h.kind \in {"boom", "bang"} THEN [err |-> h.kind, p |-> p]
    ELSE IF \E i \in 1..Len(PersonFields) : localeBaseName(PersonFields[i]).ok
    THEN [err |-> "unmodelled", p |-> p]
    ELSE [err |-> "none", p |-> p]

\* The chain from hook i on: the first error ends it.
RECURSIVE applyFrom(_, _, _, _)
applyFrom(hooks, i, p, invoked) ==
    IF i > Len(hooks) THEN [err |-> "none", p |-> p, invoked |-> invoked]
    ELSE LET r == CallHook(hooks[i], p)
         IN IF r.err # "none"
            THEN [err |-> r.err, p |-> r.p, invoked |-> Append(invoked, hooks[i])]
            ELSE applyFrom(hooks, i + 1, r.p, Append(invoked, hooks[i]))

\* A chain that goes on after an error and reports the last one.
RECURSIVE applyAll(_, _, _, _, _)
applyAll(hooks, i, p, invoked, err) ==
    IF i > Len(hooks) THEN [err |-> err, p |-> p, invoked |-> invoked]
    ELSE LET r == CallHook(hooks[i], p)
         IN applyAll(hooks, i + 1, r.p, Append(invoked, hooks[i]),
                     IF r.err # "none" THEN r.err ELSE err)

applyHooks_LastFirst(hooks, p) == applyFrom(Reverse(hooks), 1, p, <<>>)

applyHooks_KeepGoing(hooks, p) == applyAll(hooks, 1, p, <<>>, "none")

\* The registry running a chain on a record: the hooks in order.
applyHooks(hooks, p) == applyFrom(hooks, 1, p, <<>>)

\* r.applyMarshalHooks(value) with the hooks of the configuration.
applyMarshalHooks(c, p) == applyHooks(c.MarshalHooks, p)

\* r.applyUnmarshalHooks(from, value) with the hooks of the configuration.
applyUnmarshalHooks(c, p) == applyHooks(c.UnmarshalHooks, p)

\* ------------------------------------------------------------------------
\* The state machine of the configuration: configurers are applied to a
\* Config, and a chain is run on a hookPerson.

\* The Name a hookPerson has when the chain starts: zero, or decoded.
StartNames == {<<>>, <<"x">>}

InitConfig ==
    /\ component = "config"
    /\ config = ZeroConfig
    /\ registered = [marshal |-> <<>>, unmarshal |-> <<>>]
    /\ hookPerson = [Name |-> <<>>]
    /\ hookRun = Pending
    /\ HooksIdle
    /\ TagsIdle
    /\ PropTagIdle
    /\ PropsIdle
    /\ CanonIdle
    /\ MultiIdle

ConfigUnchanged == UNCHANGED <<component, hookVars, tagVars, propTagVars, propsVars, canonVars, multiVars>>

\* WithMarshalHook(hook)(config)
RegisterMarshal ==
    /\ component = "config"
    /\ Len(config.MarshalHooks) < MaxHooks
    /\ \E h \in TestHooks :
           /\ config' = WithMarshalHook(h, config)
           /\ registered' = [registered EXCEPT !.marshal = Append(@, h)]
    /\ UNCHANGED <<hookPerson, hookRun>>
    /\ ConfigUnchanged

\* WithUnmarshalHook(hook)(config)
RegisterUnmarshal ==
    /\ component = "config"
    /\ Len(config.UnmarshalHooks) < MaxHooks
    /\ \E h \in TestHooks :
           /\ config' = WithUnmarshalHook(h, config)
           /\ registered' = [registered EXCEPT !.unmarshal = Append(@, h)]
    /\ UNCHANGED <<hookPerson, hookRun>>
    /\ ConfigUnchanged

\* WithLocales(selector)(config)
RegisterLocales ==
    /\ component = "config"
    /\ Len(config.MarshalHooks) < MaxHooks
    /\ Len(config.UnmarshalHooks) < MaxHooks
    /\ \E sel \in Selectors :
           /\ config' = WithLocales(sel, config)
           /\ registered' =
                  [marshal |-> Append(registered.marshal, LocalesHookWithSelector(sel)),
                   unmarshal |-> Append(registered.unmarshal, LocalesUnmarshalHookWithSelector(sel))]
    /\ UNCHANGED <<hookPerson, hookRun>>
    /\ ConfigUnchanged

\* The marshal chain run on a record.
ApplyMarshalHooks ==
    /\ component = "config"
    /\ \E n \in StartNames :
           LET r == applyMarshalHooks(config, [Name |-> n])
           IN /\ hookPerson' = r.p
              /\ hookRun' = [dir |-> "marshal", chain |-> registered.marshal, start |-> n,
                             invoked |-> r.invoked, err |-> r.err]
    /\ UNCHANGED <<config, registered>>
    /\ ConfigUnchanged

\* The unmarshal chain run on a record that was just decoded.
ApplyUnmarshalHooks ==
    /\ component = "config"
    /\ \E n \in StartNames :
           LET r == applyUnmarshalHooks(config, [Name |-> n])
           IN /\ hookPerson' = r.p
              /\ hookRun' = [dir |-> "unmarshal", chain |-> registered.unmarshal, start |-> n,
                             invoked |-> r.invoked, err |-> r.err]
    /\ UNCHANGED <<config, registered>>
    /\ ConfigUnchanged

NextConfig ==
    \/ RegisterMarshal
    \/ RegisterUnmarshal
    \/ RegisterLocales
    \/ ApplyMarshalHooks
    \/ ApplyUnmarshalHooks

SpecConfig == InitConfig /\ [][NextConfig]_vars

\* ------------------------------------------------------------------------
\* Vocabulary of the hook chain properties.

ChainRun == hookRun # Pending

\* The hooks that were registered for the direction that ran last when it
\* ran, in registration order.
RegisteredChain == hookRun.chain

IsPrefixOf(s, t) == Len(s) <= Len(t) /\ s = SubSeq(t, 1, Len(s))

\* The hooks of a chain that return an error, by position.
Failing(chain) == {i \in 1..Len(chain) : chain[i].kind \in {"boom", "bang"}}

\* The Name a record has after the hooks of `ran` were called on it one
\* after the other, each on what the one before left: the Name the last
\* setFirst left (or the Name at the start), followed by one "-second" for
\* every appendSecond after it.
NameAfter(ran, start) ==
    LET sets == {i \in 1..Len(ran) : ran[i].kind = "setFirst"}
        last == IF sets = {} THEN 0 ELSE CHOOSE i \in sets : \A j \in sets : j <= i
        apps == {i \in (last + 1)..Len(ran) : ran[i].kind = "appendSecond"}
    IN (IF last = 0 THEN start ELSE <<"first">>) \o [k \in 1..Cardinality(apps) |-> "-second"]

\* ------------------------------------------------------------------------
\* C21: the hooks of a chain are invoked in the order they were registered,
\* each on the record as the hooks before it left it (setFirst followed by
\* appendSecond gives "first-second"); the chains of the configuration are
\* the registered hooks in registration order, so that registering a hook
\* appends to a chain without removing or reordering the earlier ones.
C21_RegistrationOrder ==
    /\ config.MarshalHooks = registered.marshal
    /\ config.UnmarshalHooks = registered.unmarshal
    /\ ChainRun =>
           /\ IsPrefixOf(hookRun.invoked, RegisteredChain)
           /\ (hookRun.err = "none" => hookRun.invoked = RegisteredChain)
           /\ hookPerson.Name = NameAfter(hookRun.invoked, hookRun.start)
           /\ (RegisteredChain = <<SetFirst, AppendSecond>> =>
                   hookPerson.Name = <<"first", "-second">>)

C21_Witness ==
    /\ ChainRun
    /\ hookRun.dir = "unmarshal"
    /\ hookRun.start = <<"x">>
    /\ hookRun.chain = <<SetFirst, AppendSecond>>
    /\ hookRun.invoked = <<SetFirst, AppendSecond>>
    /\ hookPerson.Name = <<"first", "-second">>

\* ------------------------------------------------------------------------
\* C22: when a hook of the chain returns an error, the run returns the error
\* of the first hook that failed, that hook is the last one invoked, and
\* every hook up to it was invoked once; a chain without a failing hook
\* returns no error.
C22_ErrorsPassThrough ==
    ChainRun =>
        IF Failing(RegisteredChain) = {}
        THEN hookRun.err = "none"
        ELSE /\ hookRun.err = RegisteredChain[Min(Failing(RegisteredChain))].kind
             /\ hookRun.invoked = SubSeq(RegisteredChain, 1, Min(Failing(RegisteredChain)))

C22_Witness ==
    /\ ChainRun
    /\ hookRun.dir = "marshal"
    /\ hookRun.chain = <<Boom, SetFirst>>
    /\ hookRun.err = "boom"
    /\ hookRun.invoked = <<Boom>>
    /\ hookPerson.Name = hookRun.start

\* The locale hook WithLocales registered last in a chain.
LastLocalesHook(chain) ==
    chain[CHOOSE i \in 1..Len(chain) :
              /\ chain[i].kind \in {"locales", "localesUnmarshal"}
              /\ \A j \in (i + 1)..Len(chain) : chain[j].kind \notin {"locales", "localesUnmarshal"}]

LocalesApplied ==
    \E i \in 1..Len(config.MarshalHooks) : config.MarshalHooks[i].kind = "locales"

\* ------------------------------------------------------------------------
\* C30: once WithLocales was applied to a Config, the keys in
\* Config.LocalePreferredKeys, the keys of the marshal hook it registered
\* and the keys of the unmarshal hook it registered are one and the same
\* non-empty sequence, whatever the selector returns.
C30_OnePreferenceOrder ==
    LocalesApplied =>
        /\ config.LocalePreferredKeys # <<>>
        /\ config.LocalePreferredKeys = LastLocalesHook(config.MarshalHooks).keys
        /\ config.LocalePreferredKeys = LastLocalesHook(config.UnmarshalHooks).keys

\* ========================================================================
\* The parameter canonicalizer and the hidden-locale flattening pass
\* (canonicalizeParams and flattenLocaleFields; the design document,
\* sections 4.5 and 4.6, and the tests src/canonicalize_params_test.go and
\* src/unnamed/part_001:826-994).
\*
\* The argument "props" is the record of the hooks with its companion
\* hidden from the serializer (hookHiddenLocalePerson and its variants with
\* a pointer base or a value companion), handed over by value, by pointer or
\* as a nil pointer.  `base` and `locale` are the record as it is handed
\* over, `selector` the selector of the registered marshal hook.

NameKey == <<"n", "a", "m", "e">>

HookLocalesName == <<"h", "o", "o", "k", "L", "o", "c", "a", "l", "e", "s">>
HiddenPersonName == <<"h", "o", "o", "k", "H", "i", "d", "d", "e", "n",
                      "L", "o", "c", "a", "l", "e", "P", "e", "r", "s", "o", "n">>

\* The base field as a value of the serializer.
BaseAsValue(b) ==
    IF ~b.ptr THEN StrVal(b.val)
    ELSE IF b.nil THEN NilPtr(StrVal("")) ELSE PtrTo(StrVal(b.val))

\* hookLocales { EnUS string `json:"enUS"`; EnAU string `json:"enAU"` }
LocalesAsValue(fs) ==
    StructVal(HookLocalesName,
              [i \in 1..Len(LocaleFields) |->
                  SField(LocaleFields[i], FALSE, JsonTag(lcFirst(LocaleFields[i])),
                         StrVal(fs[LocaleFields[i]]))])

LocaleAsValue(l) ==
    IF ~l.ptr THEN LocalesAsValue(l.f)
    ELSE IF l.nil THEN NilPtr(LocalesAsValue(ZeroLocales)) ELSE PtrTo(LocalesAsValue(l.f))

\* hookHiddenLocalePerson { Name `json:"name"`; NameLocale `json:"-"` }
HiddenLocalePerson(rec) ==
    StructVal(HiddenPersonName,
              <<SField(NameField, FALSE, JsonTag(NameKey), BaseAsValue(rec.base)),
                SField(NameLocaleField, FALSE, JsonTag(Dash), LocaleAsValue(rec.locale))>>)

ZeroRecord ==
    [base |-> [ptr |-> FALSE, nil |-> FALSE, val |-> ""],
     locale |-> [ptr |-> FALSE, nil |-> FALSE, f |-> ZeroLocales]]

\* The value of the argument: the record, a pointer to it, or a nil pointer
\* of that type.
ArgValue(pass, rec) ==
    IF pass = "value" THEN HiddenLocalePerson(rec)
    ELSE IF pass = "pointer" THEN PtrTo(HiddenLocalePerson(rec))
    ELSE NilPtr(HiddenLocalePerson(ZeroRecord))

\* The null of the parameter map.
NullVal == [kind |-> "null"]

\* The flattening pass for the pair (b, l) of the base named baseName:
\* nothing for a nil base or a nil companion, a null entry for every field
\* of the companion when the base is zero, and otherwise an entry for every
\* non-zero field of the companion.
flattenPair_SkipZeroBase(baseName, b, l, m) ==
    LET flatKey(f) == lcFirst(baseName) \o <<"_">> \o lcFirst(f)
        emitted == {f \in LocaleFieldSet : l.f[f] # ""}
    IN IF (b.ptr /\ b.nil) \/ (l.ptr /\ l.nil) \/ b.val = "" THEN m
       ELSE [k \in DOMAIN m \cup {flatKey(f) : f \in emitted} |->
                IF \E f \in emitted : k = flatKey(f)
                THEN StrVal(l.f[CHOOSE f \in emitted : k = flatKey(f)])
                ELSE m[k]]

flattenPair(baseName, b, l, m) ==
    LET flatKey(f) == lcFirst(baseName) \o <<"_">> \o lcFirst(f)
        emitted == IF b.val = "" THEN LocaleFieldSet
                   ELSE {f \in LocaleFieldSet : l.f[f] # ""}
    IN IF (b.ptr /\ b.nil) \/ (l.ptr /\ l.nil) THEN m
       ELSE [k \in DOMAIN m \cup {flatKey(f) : f \in emitted} |->
                IF \E f \in emitted : k = flatKey(f)
                THEN IF b.val = "" THEN NullVal
                     ELSE StrVal(l.f[CHOOSE f \in emitted : k = flatKey(f)])
                ELSE m[k]]

\* flattenLocaleFields(value, m): the pass over the fields of the record,
\* which finds the pairs by the naming convention of the hooks.
RECURSIVE flattenFields(_, _, _)
flattenFields(rec, m, i) ==
    IF i > Len(StructFields) THEN m
    ELSE LET bn == localeBaseName(StructFields[i])
         IN IF ~bn.ok \/ bn.name \notin StructFieldSet
            THEN flattenFields(rec, m, i + 1)
            ELSE flattenFields(rec, flattenPair(bn.name, rec.base, rec.locale, m), i + 1)

flattenLocaleFields(rec, m) == flattenFields(rec, m, 1)

\* Outcomes of canonicalizeParams for the argument "props": an error, or
\* the value under "props", which is null or a map.
CanonNull == [err |-> "none", null |-> TRUE, m |-> NoProps]

\* canonicalizeParams with the flattening pass before the hooks.
canonicalizeParams_FlattenFirst(pass, rec, hooked, prefKeys) ==
    IF pass = "nilptr" THEN CanonNull
    ELSE LET after == IF hooked THEN localesMarshalHook(rec, prefKeys) ELSE rec
             ser == PropsFromStruct(ArgValue(pass, after))
         IN IF ser.err # "none" THEN [err |-> ser.err, null |-> TRUE, m |-> NoProps]
            ELSE [err |-> "none", null |-> FALSE, m |-> flattenLocaleFields(rec, ser.props)]

\* canonicalizeParams(map[string]any{"props": argument}, applyMarshalHooks)
\* for a struct or pointer-to-struct argument that carries json tags: null
\* for a nil pointer; otherwise the marshal hooks run on the record, the
\* record is serialized and the flattening pass adds the flat locale keys.
canonicalizeParams(pass, rec, hooked, prefKeys) ==
    IF pass = "nilptr" THEN CanonNull
    ELSE LET after == IF hooked THEN localesMarshalHook(rec, prefKeys) ELSE rec
             ser == PropsFromStruct(ArgValue(pass, after))
         IN IF ser.err # "none" THEN [err |-> ser.err, null |-> TRUE, m |-> NoProps]
            ELSE [err |-> "none", null |-> FALSE, m |-> flattenLocaleFields(after, ser.props)]

\* ------------------------------------------------------------------------
\* The state machine of the canonicalizer: one argument, and one step per
\* function applied to it.

Passes == {"value", "pointer", "nilptr"}

TheRecord == [base |-> base, locale |-> locale]

InitCanon ==
    /\ component = "canon"
    /\ \E p \in Passes : \E h \in BOOLEAN : canonArg = [pass |-> p, hooked |-> h]
    /\ IF canonArg.pass = "nilptr"
       THEN base = ZeroRecord.base /\ locale = ZeroRecord.locale
       ELSE base \in BaseValues /\ locale \in LocaleValues
    /\ selector \in (IF canonArg.hooked THEN Selectors ELSE {<<>>})
    /\ from = NoMap
    /\ op = "none"
    /\ base0 = base
    /\ locale0 = locale
    /\ found = FALSE
    /\ canonOut = Pending
    /\ flatOut = Pending
    /\ direct = Pending
    /\ TagsIdle
    /\ PropTagIdle
    /\ PropsIdle
    /\ ConfigIdle
    /\ MultiIdle

CanonUnchanged ==
    UNCHANGED <<component, hookVars, tagVars, propTagVars, propsVars, configVars, multiVars, canonArg>>

\* canonicalizeParams(map[string]any{"props": argument}, r.applyMarshalHooks)
Canonicalize ==
    /\ component = "canon"
    /\ canonOut = Pending
    /\ canonOut' = canonicalizeParams(canonArg.pass, TheRecord, canonArg.hooked, keys)
    /\ UNCHANGED <<flatOut, direct>>
    /\ CanonUnchanged

\* PropsFromStruct(argument)
SerializeDirect ==
    /\ component = "canon"
    /\ direct = Pending
    /\ direct' = PropsFromStruct(ArgValue(canonArg.pass, TheRecord))
    /\ UNCHANGED <<canonOut, flatOut>>
    /\ CanonUnchanged

\* flattenLocaleFields(reflect.ValueOf(record), m) on the map the record
\* serializes to.
FlattenLocale ==
    /\ component = "canon"
    /\ canonArg.pass = "value"
    /\ flatOut = Pending
    /\ LET ser == PropsFromStruct(ArgValue("value", TheRecord))
       IN /\ ser.err = "none"
          /\ flatOut' = [m0 |-> ser.props, m |-> flattenLocaleFields(TheRecord, ser.props)]
    /\ UNCHANGED <<canonOut, direct>>
    /\ CanonUnchanged

NextCanon == Canonicalize \/ SerializeDirect \/ FlattenLocale

SpecCanon == InitCanon /\ [][NextCanon]_vars

\* ------------------------------------------------------------------------
\* C23: an argument that is a nil pointer to a struct canonicalizes to the
\* null value, not to a map and not to an error, whereas PropsFromStruct
\* called on the same nil pointer returns the empty map and no error.
C23_NilPointerIsNull ==
    canonArg.pass = "nilptr" =>
        /\ (canonOut # Pending => canonOut.err = "none" /\ canonOut.null)
        /\ (direct # Pending =>
                direct.err = "none" /\ ~direct.isNil /\ DOMAIN direct.props = {})

C23_Witness ==
    /\ canonArg.pass = "nilptr"
    /\ canonOut # Pending
    /\ canonOut.null
    /\ direct # Pending
    /\ direct = [err |-> "none", isNil |-> FALSE, props |-> NoProps]

\* The flat keys of the pair.
FlatKeysOfName == {NameFlatKey[f] : f \in LocaleFieldSet}

AfterHooks == IF canonArg.hooked THEN localesMarshalHook(TheRecord, keys) ELSE TheRecord

CanonicalizedToMap == canonOut # Pending /\ canonOut.err = "none" /\ ~canonOut.null

\* ------------------------------------------------------------------------
\* C28: for a struct-typed argument the marshal hooks run first, the record
\* they leave is serialized, and the flattening pass runs last on that
\* record: the entries of the map other than the flat keys are the
\* serialization of the record after the hooks, and its flat keys are those
\* of the companion after the hooks.  Hence a record with a non-zero base
\* and a nil companion gives a map with the base under its key and the base
\* value under the flat key of the first preferred locale.
C28_HooksSerializeFlatten ==
    (CanonicalizedToMap /\ canonArg.pass # "nilptr") =>
        LET ser == PropsFromStruct(HiddenLocalePerson(AfterHooks))
            l == AfterHooks.locale
            b == AfterHooks.base
        IN /\ ser.err = "none"
           /\ \A k \in DOMAIN ser.props : k \in DOMAIN canonOut.m /\ canonOut.m[k] = ser.props[k]
           /\ DOMAIN canonOut.m \subseteq DOMAIN ser.props \cup FlatKeysOfName
           /\ \A f \in LocaleFieldSet :
                  (~b.nil /\ ~l.nil /\ b.val # "" /\ l.f[f] # "")
                      => /\ NameFlatKey[f] \in DOMAIN canonOut.m
                         /\ canonOut.m[NameFlatKey[f]] = StrVal(l.f[f])
           /\ (/\ canonArg.hooked
               /\ BaseNonZero(base)
               /\ locale.nil
               /\ Head(keys) \in LocaleFieldSet)
                  => /\ NameKey \in DOMAIN canonOut.m
                     /\ canonOut.m[NameKey] = BaseAsValue(base)
                     /\ NameFlatKey[Head(keys)] \in DOMAIN canonOut.m
                     /\ canonOut.m[NameFlatKey[Head(keys)]] = StrVal(base.val)

\* hookHiddenLocalePerson{Name: "a"} by value with LocalesHook registered.
C28_Witness ==
    /\ CanonicalizedToMap
    /\ canonArg = [pass |-> "value", hooked |-> TRUE]
    /\ selector = <<>>
    /\ base = [ptr |-> FALSE, nil |-> FALSE, val |-> "a"]
    /\ locale = [ptr |-> TRUE, nil |-> TRUE, f |-> ZeroLocales]
    /\ canonOut.m = (NameKey :> StrVal("a")) @@ (NameEnUSKey :> StrVal("a"))

\* ========================================================================
\* The locale hooks on a record with several locale pairs (the loops of
\* localesMarshalHook and localesUnmarshalHook over the fields of a record
\* such as localeTestQuestionUpdate, src/internal/scope_test.go:122-128).
\*
\* The record has the pairs Content/ContentLocale and Figure/FigureLocale,
\* the field ID that belongs to no pair and the field TagLocale, named like
\* a companion although the record has no field Tag.  The strings of the
\* Content pair are "" and "a", those of the Figure pair "" and "b".

IDField == <<"I", "D">>
ContentField == <<"C", "o", "n", "t", "e", "n", "t">>
ContentLocaleField == ContentField \o SuffixLocale
FigureField == <<"F", "i", "g", "u", "r", "e">>
FigureLocaleField == FigureField \o SuffixLocale
TagLocaleField == <<"T", "a", "g">> \o SuffixLocale

\* The fields of the record, in declaration order.
QuestionFields ==
    <<IDField, ContentField, ContentLocaleField, FigureField, FigureLocaleField, TagLocaleField>>

QuestionFieldSet == {QuestionFields[i] : i \in 1..Len(QuestionFields)}

\* The pairs of the record: base and companion.
QuestionPairs == {<<ContentField, ContentLocaleField>>, <<FigureField, FigureLocaleField>>}

PairBases(x) == {b \in BaseValues : b.val \in {"", x}}

PairLocales(x) == {l \in LocaleValues : l.ptr /\ \A f \in LocaleFieldSet : l.f[f] \in {"", x}}

TagLocales ==
    {l \in LocaleValues : l.ptr /\ l.f \in {ZeroLocales, [ZeroLocales EXCEPT ![EnUS] = "a"]}}

Questions ==
    {(IDField :> [ptr |-> FALSE, nil |-> FALSE, val |-> "i"])
        @@ (ContentField :> cb) @@ (ContentLocaleField :> cl)
        @@ (FigureField :> fb) @@ (FigureLocaleField :> fl)
        @@ (TagLocaleField :> tl) :
        cb \in PairBases("a"), cl \in PairLocales("a"),
        fb \in PairBases("b"), fl \in PairLocales("b"), tl \in TagLocales}

\* The selectors the hooks of this record are built with.
QuestionSelectors == {<<>>, <<EnAU>>, <<EnAU, EnUS>>, <<EnGB>>}

\* content_enAU, figure_enUS, ...
FlatKeyOf(baseName, f) == lcFirst(baseName) \o <<"_">> \o lcFirst(f)

\* The raw values the record is bound from.
QuestionFroms ==
    {NoMap,
     [isMap |-> TRUE, m |-> <<>>],
     [isMap |-> TRUE, m |-> (FlatKeyOf(ContentField, EnAU) :> StrV("c"))],
     [isMap |-> TRUE, m |-> (FlatKeyOf(FigureField, EnUS) :> StrV("d"))],
     [isMap |-> TRUE, m |-> (FlatKeyOf(ContentField, EnAU) :> StrV("c"))
                               @@ (FlatKeyOf(FigureField, EnAU) :> StrV("d"))],
     [isMap |-> TRUE, m |-> (FlatKeyOf(ContentField, EnUS) :> StrV(""))],
     [isMap |-> TRUE, m |-> (FlatKeyOf(<<"T", "a", "g">>, EnUS) :> StrV("c"))
                               @@ (FlatKeyOf(FigureField, EnAU) :> NilV)]}

\* valueT.FieldByName(baseName) finds an exported field of the record.
HasBase(rec, fieldName) ==
    LET bn == localeBaseName(fieldName)
    IN /\ IsExported(fieldName)
       /\ bn.ok
       /\ bn.name \in DOMAIN rec
       /\ IsExported(bn.name)

\* The loop with the first base of the record as the base of every companion.
RECURSIVE marshalRecordFields_SharedBase(_, _, _)
marshalRecordFields_SharedBase(rec, preferredKeys, i) ==
    IF i > Len(QuestionFields) THEN rec
    ELSE IF ~localeBaseName(QuestionFields[i]).ok
         THEN marshalRecordFields_SharedBase(rec, preferredKeys, i + 1)
         ELSE LET r == marshalPair(rec[ContentField], rec[QuestionFields[i]], preferredKeys)
              IN marshalRecordFields_SharedBase(
                     [rec EXCEPT ![ContentField] = r.base, ![QuestionFields[i]] = r.locale],
                     preferredKeys, i + 1)

\* The loop of localesMarshalHook over the fields of the record, from
\* field i on.
RECURSIVE marshalRecordFields(_, _, _)
marshalRecordFields(rec, preferredKeys, i) ==
    IF i > Len(QuestionFields) THEN rec
    ELSE IF ~HasBase(rec, QuestionFields[i])
         THEN marshalRecordFields(rec, preferredKeys, i + 1)
         ELSE LET name == QuestionFields[i]
                  baseName == localeBaseName(name).name
                  r == marshalPair(rec[baseName], rec[name], preferredKeys)
              IN marshalRecordFields(
                     [rec EXCEPT ![baseName] = r.base, ![name] = r.locale], preferredKeys, i + 1)

\* The loop of localesUnmarshalHook over the fields of the record, from
\* field i on.
RECURSIVE unmarshalRecordFields(_, _, _, _)
unmarshalRecordFields(props, rec, preferredKeys, i) ==
    IF i > Len(QuestionFields) THEN rec
    ELSE IF ~HasBase(rec, QuestionFields[i])
         THEN unmarshalRecordFields(props, rec, preferredKeys, i + 1)
         ELSE LET name == QuestionFields[i]
                  baseName == localeBaseName(name).name
                  r == unmarshalPair(props, baseName, rec[baseName], rec[name], preferredKeys)
              IN unmarshalRecordFields(props,
                     [rec EXCEPT ![baseName] = r.base, ![name] = r.locale], preferredKeys, i + 1)

InitMulti ==
    /\ component = "multi"
    /\ question \in Questions
    /\ question0 = question
    /\ selector \in QuestionSelectors
    /\ from \in QuestionFroms
    /\ op = "none"
    /\ base = [ptr |-> FALSE, nil |-> FALSE, val |-> ""]
    /\ locale = [ptr |-> FALSE, nil |-> FALSE, f |-> ZeroLocales]
    /\ base0 = base
    /\ locale0 = locale
    /\ found = FALSE
    /\ TagsIdle
    /\ PropTagIdle
    /\ PropsIdle
    /\ ConfigIdle
    /\ CanonIdle

MultiUnchanged ==
    UNCHANGED <<component, base, locale, selector, from, base0, locale0, found,
                tagVars, propTagVars, propsVars, configVars, canonVars>>

\* LocalesHookWithSelector(selector) runs on the record.
MarshalQuestion ==
    /\ component = "multi"
    /\ question' = marshalRecordFields(question, keys, 1)
    /\ question0' = question
    /\ op' = "marshal"
    /\ MultiUnchanged

\* LocalesUnmarshalHookWithSelector(selector) runs on the record.
UnmarshalQuestion ==
    /\ component = "multi"
    /\ question' = unmarshalRecordFields(from, question, keys, 1)
    /\ question0' = question
    /\ op' = "unmarshal"
    /\ MultiUnchanged

NextMulti == MarshalQuestion \/ UnmarshalQuestion

SpecMulti == InitMulti /\ [][NextMulti]_vars

\* ------------------------------------------------------------------------
\* Vocabulary of the property of the pairs.

HasPrefix(s, prefix) == Len(s) >= Len(prefix) /\ SubSeq(s, 1, Len(prefix)) = prefix

\* The raw value with the flat keys of one base only.
OwnFlatKeys(props, baseName) ==
    IF ~props.isMap THEN props
    ELSE LET own == {k \in DOMAIN props.m : HasPrefix(k, lcFirst(baseName) \o <<"_">>)}
         IN [isMap |-> TRUE, m |-> [k \in own |-> props.m[k]]]

\* What the hook that ran last does to the pair (b, l) taken alone.
PairAlone(b, l) ==
    IF op = "marshal"
    THEN marshalPair(question0[b], question0[l], keys)
    ELSE unmarshalPair(OwnFlatKeys(from, b), b, question0[b], question0[l], keys)

\* ------------------------------------------------------------------------
\* C29: the pairs of a record are reconciled independently: after either
\* hook ran on a record with two pairs, each pair is what the hook makes of
\* that pair's own base, companion and flat keys, and the fields that are
\* no companion with a base in the record and no base of one are as before.
C29_PairsIndependent ==
    (component = "multi" /\ op # "none") =>
        /\ \A p \in QuestionPairs :
               /\ question[p[1]] = PairAlone(p[1], p[2]).base
               /\ question[p[2]] = PairAlone(p[1], p[2]).locale
        /\ question[IDField] = question0[IDField]
        /\ question[TagLocaleField] = question0[TagLocaleField]

\* Marshal fills the nil companion of Content from its base and allocates
\* the nil base of Figure from its companion; TagLocale holds a value and
\* has no base.
C29_Witness ==
    /\ component = "multi"
    /\ op = "marshal"
    /\ selector = <<EnAU>>
    /\ question0[ContentField] = [ptr |-> TRUE, nil |-> FALSE, val |-> "a"]
    /\ question0[ContentLocaleField].nil
    /\ question0[FigureField].nil
    /\ question0[FigureLocaleField].f = [ZeroLocales EXCEPT ![EnUS] = "b"]
    /\ ~question[TagLocaleField].nil /\ question[TagLocaleField].f[EnUS] = "a"
    /\ question[ContentLocaleField].f = [ZeroLocales EXCEPT ![EnAU] = "a"]
    /\ question[FigureField] = [ptr |-> TRUE, nil |-> FALSE, val |-> "b"]

\* ========================================================================
\* The whole program: a behaviour exercises one component.

InitAll == Init \/ InitTags \/ InitPropTag \/ InitProps \/ InitConfig \/ InitCanon \/ InitMulti

Next == NextHooks \/ NextTags \/ LookupPropTag \/ NextProps \/ NextConfig \/ NextCanon \/ NextMulti

Spec == InitAll /\ [][Next]_vars

====
